---- MODULE Spec2Model ----
(***************************************************************************)
(* A model of electrum_ltc/lnworker.py (LNWorker / LNWallet): the peer map,*)
(* the channel store, the payment engine and the invoice / preimage store. *)
(*                                                                         *)
(* Python values are modelled as follows.                                  *)
(*   bytes            a sequence of byte values (naturals)                 *)
(*   hex str          a sequence of one-character strings                  *)
(*   None / optional  the empty set {} for None, {v} for a present v;      *)
(*                    the empty sequence <<>> for a missing hex string     *)
(*   dict             a function over the whole key set whose value is the *)
(*                    "missing" value for a key that is not in the dict    *)
(* An exception a call raises is recorded in `ret`, the outcome of the     *)
(* last call that finished.                                                *)
(***************************************************************************)
EXTENDS Integers, Sequences, FiniteSets, TLC

VARIABLES
    lnwallet,   \* worker -> the LNWallet's stores: preimages, invoices, storage, requests
    events,     \* the network.trigger_callback calls that matter: a set of records
    ret,        \* outcome of the last finished call
    peers,             \* LNWorker.peers of worker A: node id -> Peer object (0: no entry)
    peer_objs,         \* the Peer objects created so far: a sequence of [pubkey, running]
    last_tried_peer,   \* LNWorker._last_tried_peer: LNPeerAddr -> timestamp (None: no entry)
    now,               \* time.time()
    channels,          \* LNWallet.channels of worker A: the channel ids in the dict
    chan,              \* the Channel objects: channel id -> fields
    lnwatcher,         \* LNWatcher: channel id -> conf, height, tx_pos of the funding tx
    local_height,      \* network.get_local_height()
    caller,            \* locals of a direct caller of the payment engine: addr, route
    pay,               \* the running LNWallet._pay coroutines: their locals and position
    pending_payments,  \* LNWallet.pending_payments: the futures created so far
    threads,           \* the threads that write the channel store: their locals and position
    tasks              \* the long-lived loops and network.main_taskgroup: running or not

storeVars == <<lnwallet, events>>
peerVars == <<peers, peer_objs, last_tried_peer, now>>
chanVars == <<channels, chan, lnwatcher, local_height>>
payVars == <<caller, pay, pending_payments, threads, tasks>>

vars == <<lnwallet, events, ret, peers, peer_objs, last_tried_peer, now, channels, chan,
          lnwatcher, local_height, caller, pay, pending_payments, threads, tasks>>

----------------------------------------------------------------------------
(* Bounds *)

\* byte values range over 0..MaxByte
MaxByte == 3

\* at most MaxPeers Peer objects are created
MaxPeers == 3

\* the funding tx has at most MaxConf confirmations
MaxConf == 3

\* _pay is called with at most MaxAttempts attempts
MaxAttempts == 2

\* at most MaxHtlcs HTLCs are added to a channel
MaxHtlcs == 2

----------------------------------------------------------------------------
(* Values *)

Workers == {"A", "B"}

\* the channel ids of the Channel objects
ChanIds == {"c1", "c2"}

\* the long-lived loops that start_network spawns on network.main_taskgroup
LoopNames ==
    {"main_loop", "reestablish_peers_and_channels",
     "sync_with_local_watchtower", "sync_with_remote_watchtower"}

\* the threads that call the writers of the channel store
ThreadIds == {"t1", "t2"}

\* a thread outside the writers; dumped: the local variable of save_channels
IdleThread == [pc |-> "idle", dumped |-> {}]

ByteVals == 0 .. MaxByte

\* the 1-byte `bytes` objects used as preimages and payment hashes
BytesSet == { <<b>> : b \in ByteVals }

HexDigits == <<"0","1","2","3","4","5","6","7","8","9","a","b","c","d","e","f">>

\* util.bh2u: bytes -> lower-case hex string, two digits per byte
RECURSIVE bh2u(_)
bh2u(x) ==
    IF x = <<>> THEN <<>>
    ELSE <<HexDigits[(Head(x) \div 16) + 1], HexDigits[(Head(x) % 16) + 1]>> \o bh2u(Tail(x))

HexVal(d) == (CHOOSE i \in 1..16 : HexDigits[i] = d) - 1

\* util.bfh: hex string -> bytes
RECURSIVE bfh(_)
bfh(s) ==
    IF s = <<>> THEN <<>>
    ELSE <<HexVal(s[1]) * 16 + HexVal(s[2])>> \o bfh(SubSeq(s, 3, Len(s)))

\* crypto.sha256 on the modelled byte strings: a fixed function without fixed
\* points (no byte string is its own hash)
sha256(x) == << (3 * x[1] + 1) % (MaxByte + 1) >>

HexKeys == { bh2u(h) : h \in BytesSet }

NoHex == <<>>
None == {}
Some(v) == {v}
TheVal(o) == CHOOSE v \in o : TRUE

PR_UNPAID == "PR_UNPAID"
PR_EXPIRED == "PR_EXPIRED"
PR_UNKNOWN == "PR_UNKNOWN"
PR_PAID == "PR_PAID"
PR_INFLIGHT == "PR_INFLIGHT"
SENT == "SENT"
RECEIVED == "RECEIVED"

\* invoice amounts in sat; None when the invoice carries no amount
AmountSet == {None, Some(100000), Some(200000)}

\* InvoiceInfo(payment_hash, amount, direction, status)
InvoiceInfo(payment_hash, amount, direction, status) ==
    [payment_hash |-> payment_hash, amount |-> amount,
     direction |-> direction, status |-> status]

\* the (amount, direction, status) tuple stored under a key; NoInvoice when the
\* key is not in the dict
NoInvoice == <<>>

\* no entry for a channel in channel_timestamps
NoTimestamps == <<>>

\* wallet.storage: put() keeps a copy of the value under the key
EmptyStorage ==
    [lightning_preimages |-> [k \in HexKeys |-> NoHex],
     lightning_invoices2 |-> [k \in HexKeys |-> NoInvoice],
     lightning_invoices  |-> [k \in HexKeys |-> NoInvoice],
     lightning_channel_timestamps |-> [c \in ChanIds |-> NoTimestamps],
     lightning_channel_key_der_ctr |-> None,
     channels            |-> {}]

\* LNWallet.__init__: the stores of a fresh wallet
NewWallet ==
    [preimages |-> EmptyStorage.lightning_preimages,
     invoices  |-> EmptyStorage.lightning_invoices2,
     storage   |-> EmptyStorage,
     channel_timestamps |-> EmptyStorage.lightning_channel_timestamps,
     requests  |-> {}]

\* the outcome of a call: its name, the exception it raised ("" if none) or its
\* result, and the arguments it was called with when a property needs them
Call(op, args, result) == [op |-> op, result |-> result, args |-> args]

Ret(op, result) == Call(op, <<>>, result)

\* the result of a method: the wallet after it and the exception it raised ("" if none)
Result(wallet, exc) == [wallet |-> wallet, exc |-> exc]

----------------------------------------------------------------------------
(* Invoice / preimage store.  A method is an operator from the wallet `self` *)
(* to the wallet after the call.                                             *)

\* LNWallet.save_preimage without its assertion
save_preimage_unchecked(self, payment_hash, preimage) ==
    LET d == [self.preimages EXCEPT ![bh2u(payment_hash)] = bh2u(preimage)]
    IN Result([self EXCEPT !.preimages = d, !.storage.lightning_preimages = d], "")

\* LNWallet.save_preimage
save_preimage(self, payment_hash, preimage) ==
    IF sha256(preimage) # payment_hash
    THEN Result(self, "AssertionError")
    ELSE LET d == [self.preimages EXCEPT ![bh2u(payment_hash)] = bh2u(preimage)]
         IN Result([self EXCEPT !.preimages = d, !.storage.lightning_preimages = d], "")

\* LNWallet.get_preimage
get_preimage(self, payment_hash) == bfh(self.preimages[bh2u(payment_hash)])

\* LNWallet.get_invoice_info: None for UnknownPaymentHash
get_invoice_info(self, payment_hash) ==
    LET key == bh2u(payment_hash) IN
    IF self.invoices[key] = NoInvoice THEN None
    ELSE Some(InvoiceInfo(payment_hash, self.invoices[key][1],
                          self.invoices[key][2], self.invoices[key][3]))

\* LNWallet.save_invoice_info
save_invoice_info(self, info) ==
    LET d == [self.invoices EXCEPT ![bh2u(info.payment_hash)] =
                  <<info.amount, info.direction, info.status>>]
    IN [self EXCEPT !.invoices = d, !.storage.lightning_invoices2 = d]

\* LNWallet.get_invoice_status
get_invoice_status(self, payment_hash) ==
    IF get_invoice_info(self, payment_hash) = None THEN PR_UNKNOWN
    ELSE TheVal(get_invoice_info(self, payment_hash)).status

\* LNWallet.set_invoice_status: the wallet after the call
set_invoice_status(self, payment_hash, status) ==
    IF get_invoice_info(self, payment_hash) = None THEN self
    ELSE save_invoice_info(self,
            [TheVal(get_invoice_info(self, payment_hash)) EXCEPT !.status = status])

\* the n-th payment_received callback of worker w for a key
PaymentReceived(w, key, n) == [name |-> "payment_received", worker |-> w, key |-> key, n |-> n]

\* how often worker w triggered payment_received for a key
TimesReceived(evts, w, key) ==
    Cardinality({ e \in evts : e.name = "payment_received" /\ e.worker = w /\ e.key = key })

\* LNWallet.set_invoice_status: the payment_received callbacks it triggers,
\* given the callbacks evts triggered so far
set_invoice_status_events(evts, w, self, payment_hash, status) ==
    IF get_invoice_info(self, payment_hash) = None THEN {}
    ELSE IF TheVal(get_invoice_info(self, payment_hash)).direction = RECEIVED
            /\ status = PR_PAID
         THEN {PaymentReceived(w, bh2u(payment_hash),
                               TimesReceived(evts, w, bh2u(payment_hash)) + 1)}
         ELSE {}

\* LNWallet._add_request_coro with the preimage os.urandom drew
add_request_coro(self, amount_sat, payment_preimage) ==
    LET payment_hash == sha256(payment_preimage)
        info == InvoiceInfo(payment_hash, amount_sat, RECEIVED, PR_UNPAID)
        key == bh2u(payment_hash)
        r1 == save_preimage(self, payment_hash, payment_preimage)
    IN IF r1.exc # "" THEN r1
       ELSE Result([save_invoice_info(r1.wallet, info) EXCEPT !.requests = @ \cup {key}], "")

----------------------------------------------------------------------------
(* The state a method of worker A works on, as one record, and the step that *)
(* installs the state a call returned.                                       *)

State ==
    [lnwallet |-> lnwallet, events |-> events, peers |-> peers, peer_objs |-> peer_objs,
     last_tried_peer |-> last_tried_peer, now |-> now, channels |-> channels,
     chan |-> chan, lnwatcher |-> lnwatcher,
     local_height |-> local_height, caller |-> caller, pay |-> pay,
     pending_payments |-> pending_payments, threads |-> threads, tasks |-> tasks,
     exc |-> "", args |-> <<>>]

Commit(op, st) ==
    /\ lnwallet' = st.lnwallet
    /\ events' = st.events
    /\ peers' = st.peers
    /\ peer_objs' = st.peer_objs
    /\ last_tried_peer' = st.last_tried_peer
    /\ now' = st.now
    /\ channels' = st.channels
    /\ chan' = st.chan
    /\ lnwatcher' = st.lnwatcher
    /\ local_height' = st.local_height
    /\ caller' = st.caller
    /\ pay' = st.pay
    /\ pending_payments' = st.pending_payments
    /\ threads' = st.threads
    /\ tasks' = st.tasks
    /\ ret' = Call(op, st.args, st.exc)

\* the state after a method of worker w's wallet returned r
WithWallet(st, w, r) == [st EXCEPT !.lnwallet[w] = r.wallet, !.exc = r.exc]

Raise(st, exc) == [st EXCEPT !.exc = exc]

\* a call of save_preimage with arbitrary arguments
SavePreimage(w) ==
    \E payment_hash \in BytesSet, preimage \in BytesSet :
       Commit("save_preimage",
              WithWallet(State, w, save_preimage(lnwallet[w], payment_hash, preimage)))

\* a call of add_request
AddRequest(w) ==
    \E amount_sat \in AmountSet, payment_preimage \in BytesSet :
       Commit("add_request",
              WithWallet(State, w, add_request_coro(lnwallet[w], amount_sat, payment_preimage)))

----------------------------------------------------------------------------
(* Peer manager *)

\* the worker whose peers and channels are modelled
Me == "A"

\* remote node pubkeys
NodeIds == {"n1", "n2"}

Hosts == {"h1", "h2"}

Ports == {9735}

\* lnutil.LNPeerAddr
LNPeerAddr(host, port, pubkey) == [host |-> host, port |-> port, pubkey |-> pubkey]

PeerAddrs == { LNPeerAddr(h, p, n) : h \in Hosts, p \in Ports, n \in NodeIds }

\* no entry in the peers dict
NoPeer == 0

\* Peer(lnworker, node_id, transport): a new Peer object whose main loop runs
NewPeer(node_id) ==
    [pubkey |-> node_id, running |-> TRUE,
     transport |-> "LNTransport",   \* LNResponderTransport for an inbound connection
     initialized |-> FALSE,     \* Peer.initialized: the remote's init message was accepted
     their_features |-> None,   \* the feature bits of the remote's init message
     reestablishing |-> {}]     \* the reestablish_channel tasks of the Peer's task group

\* the Peer objects whose main loop was spawned and has not ended
RunningPeers == { p \in 1..Len(peer_objs) : peer_objs[p].running }

\* LNWorker._add_peer.  No other coroutine runs between its test of self.peers
\* and its insertion: the one await in between, main_taskgroup.spawn, only
\* creates the task.
_add_peer(st, host, port, node_id) ==
    IF st.peers[node_id] # NoPeer THEN st
    ELSE LET peer_addr == LNPeerAddr(host, port, node_id)
             peer == Len(st.peer_objs) + 1
         IN [st EXCEPT !.last_tried_peer[peer_addr] = Some(st.now),
                       !.peer_objs = Append(@, NewPeer(node_id)),
                       !.peers[node_id] = peer]

PEER_RETRY_INTERVAL == 600

NUM_PEERS_TARGET == 4

\* the first address of a list that is not in _last_tried_peer, connected or not
RECURSIVE first_not_tried(_, _, _)
first_not_tried(st, addrs, skip_connected) ==
    IF addrs = <<>> THEN None
    ELSE IF st.last_tried_peer[Head(addrs)] # None
    THEN first_not_tried(st, Tail(addrs), skip_connected)
    ELSE Some(Head(addrs))

\* the first address of a list that is not in _last_tried_peer and, for the
\* recent peers, whose pubkey is not in self.peers; None if there is none
RECURSIVE first_untried(_, _, _)
first_untried(st, addrs, skip_connected) ==
    IF addrs = <<>> THEN None
    ELSE IF skip_connected /\ st.peers[Head(addrs).pubkey] # NoPeer
    THEN first_untried(st, Tail(addrs), skip_connected)
    ELSE IF st.last_tried_peer[Head(addrs)] # None
    THEN first_untried(st, Tail(addrs), skip_connected)
    ELSE Some(Head(addrs))

\* LNWorker._get_next_peers_to_try: the state after its maintenance of
\* _last_tried_peer, and the list it returns.  recent_peers: what
\* channel_db.get_recent_peers returns; graph_peers: the preferred addresses of
\* the nodes of the graph, in the random order of the db; fallback: the choice
\* among the fallback nodes of the net, None on a net without fallback nodes
_get_next_peers_to_try(st, recent_peers, graph_peers, fallback) ==
    LET st1 == [st EXCEPT !.last_tried_peer =
                   [a \in DOMAIN @ |->
                       IF @[a] # None /\ st.now >= TheVal(@[a]) + PEER_RETRY_INTERVAL
                       THEN None ELSE @[a]]]
        unconnected == SelectSeq(graph_peers, LAMBDA a : st1.peers[a.pubkey] = NoPeer)
        recent == first_untried(st1, recent_peers, TRUE)
        random == first_untried(st1, unconnected, FALSE)
    IN [st |-> st1,
        peers |-> IF recent # None THEN <<TheVal(recent)>>
                  ELSE IF random # None THEN <<TheVal(random)>>
                  ELSE IF fallback # None THEN <<TheVal(fallback)>>
                  ELSE <<>>]

\* one iteration of LNWorker.main_loop after its sleep
main_loop(st, recent_peers, graph_peers, fallback) ==
    LET r == _get_next_peers_to_try(st, recent_peers, graph_peers, fallback)
        peer == r.peers[1]
        last_tried == IF r.st.last_tried_peer[peer] = None THEN 0
                      ELSE TheVal(r.st.last_tried_peer[peer])
    IN IF Cardinality({ n \in DOMAIN st.peers : st.peers[n] # NoPeer }) >= NUM_PEERS_TARGET
       THEN st
       ELSE IF r.peers = <<>> THEN r.st
       ELSE IF last_tried + PEER_RETRY_INTERVAL < st.now
       THEN _add_peer(r.st, peer.host, peer.port, peer.pubkey)
       ELSE r.st

\* LNWorker.maybe_listen, cb: an inbound connection whose handshake gave node_id
maybe_listen_cb(st, node_id) ==
    LET peer == Len(st.peer_objs) + 1
    IN [st EXCEPT !.peer_objs = Append(@, [NewPeer(node_id) EXCEPT
                                              !.transport = "LNResponderTransport"]),
                  !.peers[node_id] = peer]

\* channels_for_peer as the mock wallet of the tests has it: all channels
channels_for_peer_all(st, node_id) == st.channels

\* LNWallet.channels_for_peer
channels_for_peer(st, node_id) == { c \in st.channels : st.chan[c].node_id = node_id }

\* peer_closed without its last line
peer_closed_kept(st, peer) ==
    [st EXCEPT !.chan = [c \in DOMAIN @ |->
                IF c \in channels_for_peer(st, st.peer_objs[peer].pubkey)
                THEN [@[c] EXCEPT !.state = "DISCONNECTED"] ELSE @[c]]]

\* LNWallet.peer_closed
peer_closed(st, peer) ==
    LET pubkey == st.peer_objs[peer].pubkey
        st1 == [st EXCEPT !.chan = [c \in DOMAIN @ |->
                    IF c \in channels_for_peer(st, pubkey)
                    THEN [@[c] EXCEPT !.state = "DISCONNECTED"] ELSE @[c]]]
    IN IF st1.peers[pubkey] = NoPeer THEN Raise(st1, "KeyError")
       ELSE [st1 EXCEPT !.peers[pubkey] = NoPeer]

----------------------------------------------------------------------------
(* Channel store *)

\* per-commitment points of the remote side
Points == {"P1", "P2"}

ChanStates == {"OPENING", "OPEN", "DISCONNECTED", "CLOSED"}

\* Channel(...): a channel object after channel establishment
NewChannel(node_id, output_index, min_depth) ==
    [node_id |-> node_id,
     output_index |-> output_index,                 \* funding_outpoint.output_index
     funding_txn_minimum_depth |-> min_depth,       \* constraints
     short_channel_id |-> None,
     short_channel_id_predicted |-> None,
     state |-> "OPENING",
     force_closed |-> FALSE,
     funding_txo_spent |-> None,                    \* _is_funding_txo_spent: None, "don't know"
     remote_balance_msat |-> 0,                     \* balance(REMOTE)
     remote_current_pcp |-> "P1",                   \* config[REMOTE].current_per_commitment_point
     remote_next_pcp |-> "P2",                      \* config[REMOTE].next_per_commitment_point
     remote_dust_limit_sat |-> 546,                 \* config[REMOTE].dust_limit_sat
     local_oldest_unrevoked_ctn |-> 0,              \* get_oldest_unrevoked_ctn(LOCAL)
     local_latest_ctn |-> 0,                        \* get_latest_ctn(LOCAL)
     htlcs |-> {}]                                  \* hm: the HTLCs of the channel

\* Channel.is_closed
is_closed(ch) == ch.force_closed \/ ch.state = "CLOSED"

\* Channel.serialize: the persisted fields of a channel
serialize(c, ch) ==
    [channel_id |-> c, node_id |-> ch.node_id,
     short_channel_id |-> ch.short_channel_id,
     force_closed |-> ch.force_closed,
     remote_current_pcp |-> ch.remote_current_pcp,
     remote_next_pcp |-> ch.remote_next_pcp]

\* lnutil.ShortChannelID.from_components
ShortChannelID(block_height, tx_pos, output_index) == <<block_height, tx_pos, output_index>>

\* LNWallet.save_channels
save_channels(st) ==
    [st EXCEPT !.lnwallet[Me].storage.channels =
        { serialize(x, st.chan[x]) : x \in st.channels }]

\* LNWallet.save_channel
save_channel(st, c) ==
    IF st.chan[c].remote_next_pcp = st.chan[c].remote_current_pcp
    THEN Raise(st, "Exception: next_point == current_point")
    ELSE save_channels([st EXCEPT !.channels = @ \cup {c}])

\* a remove_channel without its assert
remove_channel_unchecked(st, c) ==
    IF c \notin st.channels THEN Raise(st, "KeyError")
    ELSE save_channels([st EXCEPT !.channels = @ \ {c}])

\* LNWallet.remove_channel
remove_channel(st, c) ==
    IF c \notin st.channels THEN Raise(st, "KeyError")
    ELSE IF ~is_closed(st.chan[c]) THEN Raise(st, "AssertionError")
    ELSE save_channels([st EXCEPT !.channels = @ \ {c}])

\* remove_channel of thread t up to the end of its `with self.lock` block
remove_channel_pop(st, t, c) ==
    IF c \notin st.channels THEN Raise(st, "KeyError")
    ELSE IF ~is_closed(st.chan[c]) THEN Raise(st, "AssertionError")
    ELSE [st EXCEPT !.channels = @ \ {c}, !.threads[t].pc = "popped"]

\* save_channels of thread t, its `with self.lock` block: the channels are dumped
save_channels_dump(st, t) ==
    [st EXCEPT !.threads[t] = [pc |-> "dumped",
                               dumped |-> { serialize(x, st.chan[x]) : x \in st.channels }]]

\* save_channels of thread t after its lock is released: storage.put, storage.write
save_channels_put(st, t) ==
    [st EXCEPT !.lnwallet[Me].storage.channels = st.threads[t].dumped,
               !.threads[t] = IdleThread]

\* the commitment transaction of channel c handed to network.broadcast_transaction
Broadcast(c) == [name |-> "broadcast_transaction", tx |-> c]

\* tx.txid() of the commitment transaction of channel c
txid_of(c) == [c1 |-> "txid_c1", c2 |-> "txid_c2"][c]

\* force_close_channel without chan.set_force_closed()
force_close_channel_unflagged(st, c, bcast_ok) ==
    IF c \notin st.channels THEN Raise(st, "KeyError")
    ELSE LET st2 == save_channel(st, c)
         IN IF st2.exc # "" THEN st2
            ELSE IF bcast_ok
            THEN [st2 EXCEPT !.events = @ \cup {Broadcast(c)}, !.exc = txid_of(c)]
            ELSE st2

\* force_close_channel that broadcasts the commitment tx before it saves the channel
force_close_channel_publish_first(st, c, bcast_ok) ==
    IF c \notin st.channels THEN Raise(st, "KeyError")
    ELSE LET st1 == [st EXCEPT !.chan[c].force_closed = TRUE,
                               !.events = IF bcast_ok THEN @ \cup {Broadcast(c)} ELSE @]
             st2 == save_channel(st1, c)
         IN IF st2.exc # "" THEN st2
            ELSE IF bcast_ok THEN [st2 EXCEPT !.exc = txid_of(c)]
            ELSE st2

\* LNWallet.force_close_channel; bcast_ok: whether broadcast_transaction succeeds
\* (the call returns tx.txid(), or None when the broadcast failed)
force_close_channel(st, c, bcast_ok) ==
    IF c \notin st.channels THEN Raise(st, "KeyError")
    ELSE LET st1 == [st EXCEPT !.chan[c].force_closed = TRUE]
             st2 == save_channel(st1, c)
         IN IF st2.exc # "" THEN st2
            ELSE IF bcast_ok
            THEN [st2 EXCEPT !.events = @ \cup {Broadcast(c)}, !.exc = txid_of(c)]
            ELSE st2

\* LNWallet.get_channel_by_short_id: the channels of the dict with that id
\* (the first of them in dict order is returned; None if there is none)
get_channel_by_short_id(st, short_channel_id) ==
    { c \in st.channels : st.chan[c].short_channel_id = short_channel_id }

\* LNWallet.save_short_chan_id
\* a mined funding tx taken as deep enough, whatever the minimum depth
mined(conf, funding_txn_minimum_depth) == conf > 0

\* the test of save_short_chan_id: conf >= funding_txn_minimum_depth > 0
deep_enough(conf, funding_txn_minimum_depth) ==
    conf >= funding_txn_minimum_depth /\ funding_txn_minimum_depth > 0

save_short_chan_id(st, c) ==
    LET conf == st.lnwatcher[c].conf
        st1 == IF conf > 0
               THEN [st EXCEPT !.chan[c].short_channel_id_predicted =
                        Some(ShortChannelID(st.lnwatcher[c].height, st.lnwatcher[c].tx_pos,
                                            st.chan[c].output_index))]
               ELSE st
    IN IF deep_enough(conf, st.chan[c].funding_txn_minimum_depth)
       THEN save_channel([st1 EXCEPT !.chan[c].short_channel_id =
                                         st1.chan[c].short_channel_id_predicted], c)
       ELSE st1

----------------------------------------------------------------------------
(* Channel lifecycle driver *)

\* what LNWatcher knows of a funding tx: get_tx_height(txid).conf, get_txpos(txid),
\* and whether the channel's force-close tx is still local-only (TX_HEIGHT_LOCAL)
UnminedTx == [conf |-> 0, height |-> 0, tx_pos |-> 0, close_tx_local |-> TRUE]
MinedTx(conf, height, tx_pos) ==
    [conf |-> conf, height |-> height, tx_pos |-> tx_pos, close_tx_local |-> TRUE]

HTLCOwner_LOCAL == "LOCAL"
HTLCOwner_REMOTE == "REMOTE"

\* an HTLC of a channel: who offered it, and the commitments (subject, ctn) it is in
UpdateAddHtlc(htlc_id, sender, amount_msat, payment_hash, cltv_expiry, released, ctxs) ==
    [htlc_id |-> htlc_id, sender |-> sender, amount_msat |-> amount_msat,
     payment_hash |-> payment_hash, cltv_expiry |-> cltv_expiry,
     preimage_released |-> released, in_ctx |-> ctxs, settled |-> ""]

\* every HTLC of the channel, whatever the commitment and the direction
all_htlcs(ch, subject, direction, ctn) == ch.htlcs

\* hm.htlcs_by_direction(subject, direction, ctn)
htlcs_by_direction(ch, subject, direction, ctn) ==
    { h \in ch.htlcs : /\ <<subject, ctn>> \in h.in_ctx
                       /\ (direction = SENT) = (h.sender = subject) }

RECURSIVE SumSat(_)
SumSat(hs) ==
    IF hs = {} THEN 0
    ELSE LET h == CHOOSE x \in hs : TRUE
         IN (h.amount_msat \div 1000) + SumSat(hs \ {h})

Max(a, b) == IF a >= b THEN a ELSE b

\* lnutil.NBLOCK_DEADLINE_BEFORE_EXPIRY_FOR_RECEIVED_HTLCS
NBLOCK_DEADLINE_BEFORE_EXPIRY_FOR_RECEIVED_HTLCS == 4
\* lnutil.NBLOCK_DEADLINE_AFTER_EXPIRY_FOR_OFFERED_HTLCS
NBLOCK_DEADLINE_AFTER_EXPIRY_FOR_OFFERED_HTLCS == 1

\* LNWallet.should_channel_be_closed_due_to_expiring_htlcs
should_channel_be_closed_due_to_expiring_htlcs(st, c) ==
    LET ch == st.chan[c]
        recv == { h \in htlcs_by_direction(ch, HTLCOwner_LOCAL, RECEIVED, ch.local_latest_ctn)
                        \cup htlcs_by_direction(ch, HTLCOwner_REMOTE, SENT, ch.local_oldest_unrevoked_ctn)
                        \cup htlcs_by_direction(ch, HTLCOwner_REMOTE, SENT, ch.local_latest_ctn) :
                    /\ h.preimage_released
                    /\ ~(h.cltv_expiry - NBLOCK_DEADLINE_BEFORE_EXPIRY_FOR_RECEIVED_HTLCS
                           > st.local_height) }
        offered == { h \in htlcs_by_direction(ch, HTLCOwner_LOCAL, SENT, ch.local_latest_ctn)
                        \cup htlcs_by_direction(ch, HTLCOwner_REMOTE, RECEIVED, ch.local_oldest_unrevoked_ctn)
                        \cup htlcs_by_direction(ch, HTLCOwner_REMOTE, RECEIVED, ch.local_latest_ctn) :
                    ~(h.cltv_expiry + NBLOCK_DEADLINE_AFTER_EXPIRY_FOR_OFFERED_HTLCS
                        > st.local_height) }
        htlcs_we_could_reclaim == recv \cup offered
        total_value_sat == SumSat(htlcs_we_could_reclaim)
        num_htlcs == Cardinality(htlcs_we_could_reclaim)
        min_value_worth_closing_channel_over_sat ==
            Max(num_htlcs * 10 * ch.remote_dust_limit_sat, 500000)
    IN total_value_sat > min_value_worth_closing_channel_over_sat

\* a call the driver makes on the Peer of channel c
PeerCall(name, c) == [name |-> name, chan |-> c]

\* LNWallet.on_network_update: the body of its loop for one channel.
\* exc = "return" stands for the return statement that ends the tick.
on_network_update_chan(st, event, c, bcast_ok) ==
    IF is_closed(st.chan[c]) THEN st
    ELSE IF st.chan[c].state # "CLOSED"
            /\ should_channel_be_closed_due_to_expiring_htlcs(st, c)
    THEN force_close_channel(st, c, bcast_ok)
    ELSE LET st1 == IF st.chan[c].short_channel_id = None
                    THEN save_short_chan_id(st, c) ELSE st
             ch == st1.chan[c]
         IN IF st1.exc # "" THEN st1
            ELSE IF ch.state = "OPENING" /\ ch.short_channel_id # None
            THEN IF st1.peers[ch.node_id] = NoPeer THEN Raise(st1, "KeyError")
                 ELSE [st1 EXCEPT !.events = @ \cup {PeerCall("send_funding_locked", c)}]
            ELSE IF ch.state = "OPEN"
            THEN IF st1.peers[ch.node_id] = NoPeer THEN Raise(st1, "return")
                 ELSE [st1 EXCEPT !.events = @
                          \cup (IF event = "fee" THEN {PeerCall("bitcoin_fee_update", c)} ELSE {})
                          \cup {PeerCall("on_network_update", c)}]
            ELSE IF ch.force_closed /\ ch.state # "CLOSED"
            THEN IF st1.lnwatcher[c].close_tx_local
                 THEN force_close_channel(st1, c, bcast_ok)
                 ELSE st1
            ELSE st1

RECURSIVE on_network_update_loop(_, _, _, _)
on_network_update_loop(st, event, order, bcast_ok) ==
    IF order = <<>> THEN st
    ELSE LET r == on_network_update_chan(st, event, Head(order), bcast_ok)
         IN IF r.exc # "" THEN r
            ELSE on_network_update_loop(r, event, Tail(order), bcast_ok)

\* the orders in which a dict holding the channels cs may list them
Orders(cs) ==
    { o \in [1..Cardinality(cs) -> cs] : \A i, j \in DOMAIN o : i # j => o[i] # o[j] }

NetworkEvents == {"wallet_updated", "network_updated", "verified", "fee"}

\* LNWallet.on_network_update(event, *args); from_lnwatcher: args[0] is self.lnwatcher;
\* order: the snapshot list(self.channels.values())
on_network_update(st, event, from_lnwatcher, order, bcast_ok) ==
    IF event \in {"verified", "wallet_updated"} /\ ~from_lnwatcher THEN st
    ELSE LET r == on_network_update_loop(st, event, order, bcast_ok)
         IN IF r.exc = "return" THEN [r EXCEPT !.exc = ""] ELSE r

----------------------------------------------------------------------------
(* On-chain reaction *)

\* the funding outpoint of channel c, as the string funding_outpoint.to_str() gives
Outpoint(c) == c

\* an outpoint that is the funding outpoint of no channel
OtherOutpoint == "other"

\* LNWallet.channel_by_txo: the channels of the dict with that funding outpoint
channel_by_txo(st, txo) == { c \in st.channels : Outpoint(c) = txo }

\* a TxMinedInfo of a funding or closing tx: its txid, height and timestamp
TxInfo(txid, height, timestamp) == [txid |-> txid, height |-> height, timestamp |-> timestamp]

\* the tuple kept in channel_timestamps: funding txid, height, timestamp and
\* closing txid, height, timestamp; closing: None or a TxInfo
Timestamps(funding, closing) ==
    <<Some(funding.txid), Some(funding.height), Some(funding.timestamp),
      IF closing = None THEN None ELSE Some(TheVal(closing).txid),
      IF closing = None THEN None ELSE Some(TheVal(closing).height),
      IF closing = None THEN None ELSE Some(TheVal(closing).timestamp)>>

\* a handler that leaves the timestamps as they are
keep_timestamps(st, c, funding, closing) == st

\* channel_timestamps[bh2u(chan.channel_id)] = ...; storage.put of the dict
save_timestamps(st, c, funding, closing) ==
    LET d == [st.lnwallet[Me].channel_timestamps EXCEPT ![c] = Timestamps(funding, closing)]
    IN [st EXCEPT !.lnwallet[Me].channel_timestamps = d,
                  !.lnwallet[Me].storage.lightning_channel_timestamps = d]

\* LNWallet.on_channel_open
on_channel_open(st, funding_outpoint, funding) ==
    IF channel_by_txo(st, funding_outpoint) = {} THEN st
    ELSE LET c == CHOOSE c \in channel_by_txo(st, funding_outpoint) : TRUE
         IN [save_timestamps(st, c, funding, None) EXCEPT
                !.chan[c].funding_txo_spent = Some(FALSE)]

\* lnsweep.SweepInfo: cltv_expiry and csv_delay are 0 when the sweep has no such
\* lock; gen_tx: the tx gen_tx() returns, None when the output is dust
SweepInfo(name, cltv_expiry, csv_delay, gen_tx) ==
    [name |-> name, cltv_expiry |-> cltv_expiry, csv_delay |-> csv_delay, gen_tx |-> gen_tx]

\* a try_redeem that never looks at the CSV lock
csv_ignored(csv_delay, prev_conf) == FALSE

\* `if sweep_info.csv_delay:` ... `if remaining > 0:` of try_redeem
csv_unmet(csv_delay, prev_conf) == csv_delay # 0 /\ csv_delay - prev_conf > 0

\* LNWallet.try_redeem; prev_conf: the confirmations of the tx of prevout
try_redeem(st, prevout, prev_conf, sweep_info, bcast_ok) ==
    LET cltv_remaining == sweep_info.cltv_expiry - st.local_height
        csv_remaining == sweep_info.csv_delay - prev_conf
        broadcast == /\ ~(sweep_info.cltv_expiry # 0 /\ cltv_remaining > 0)
                     /\ ~csv_unmet(sweep_info.csv_delay, prev_conf)
        \* `remaining` as the last of the two assignments left it
        remaining == IF sweep_info.csv_delay # 0 THEN csv_remaining ELSE cltv_remaining
    IN IF sweep_info.gen_tx = None THEN Raise(st, "AttributeError")
       ELSE LET tx == TheVal(sweep_info.gen_tx)
                st1 == [st EXCEPT !.events = @ \cup
                           {[name |-> "set_label", tx |-> tx, label |-> sweep_info.name]}]
            IN IF broadcast
               THEN IF bcast_ok
                    THEN [st1 EXCEPT !.events = @ \cup
                             {[name |-> "broadcast_transaction", tx |-> tx]}]
                    ELSE st1
               ELSE [st1 EXCEPT !.events = @ \cup
                        {[name |-> "add_future_tx", tx |-> tx, remaining |-> remaining]}]

\* an item of sweep_info_dict together with what the handler looks up for it:
\* spender: spenders.get(prevout); e_htlc_tx: chan.sweep_htlc(closing_tx, spender_tx);
\* spender2: whether spenders has an entry for the outpoint spender:0
SweepItem(prevout, sweep_info, prev_conf, spender, e_htlc_tx, spender2, spender_conf) ==
    [prevout |-> prevout, sweep_info |-> sweep_info, prev_conf |-> prev_conf,
     spender |-> spender, e_htlc_tx |-> e_htlc_tx, spender2 |-> spender2,
     spender_conf |-> spender_conf]

\* spenders.get(spender + ':0'): the recorded spender of output 0 of the spender
spenders_get_outpoint0(it) == it.spender2

\* spenders.get(spender_tx.outputs()[0]): the keys of spenders are outpoints
\* 'txid:n' (spenders.get(prevout)), the key looked up is the output itself (its
\* type, address and value): no entry is found, whoever spent the output
spenders_get_output0(it) == FALSE

\* the loop of on_channel_closed over sweep_info_dict.items()
RECURSIVE sweep_loop(_, _, _)
sweep_loop(st, items, bcast_ok) ==
    IF items = <<>> THEN st
    ELSE LET it == Head(items)
             st1 == IF it.spender # None
                    THEN IF it.e_htlc_tx # None
                         THEN IF spenders_get_output0(it) THEN st
                              ELSE try_redeem(st, <<TheVal(it.spender), 0>>, it.spender_conf,
                                              TheVal(it.e_htlc_tx), bcast_ok)
                         ELSE st
                    ELSE try_redeem(st, it.prevout, it.prev_conf, it.sweep_info, bcast_ok)
         IN IF st1.exc # "" THEN st1 ELSE sweep_loop(st1, Tail(items), bcast_ok)

\* LNWallet.on_channel_closed; items: chan.sweep_ctx(closing_tx) with the lookups
on_channel_closed(st, funding_outpoint, funding, closing, items, bcast_ok) ==
    IF channel_by_txo(st, funding_outpoint) = {} THEN st
    ELSE LET c == CHOOSE c \in channel_by_txo(st, funding_outpoint) : TRUE
             st1 == [save_timestamps(st, c, funding, Some(closing)) EXCEPT
                        !.chan[c].funding_txo_spent = Some(TRUE),
                        !.chan[c].state = "CLOSED"]
             st2 == IF st1.chan[c].short_channel_id # None
                    THEN [st1 EXCEPT !.events = @ \cup
                             {[name |-> "channel_db.remove_channel",
                               short_channel_id |-> TheVal(st1.chan[c].short_channel_id)]}]
                    ELSE st1
         IN sweep_loop(st2, items, bcast_ok)

----------------------------------------------------------------------------
(* Reestablishment *)

\* Channel.should_try_to_reestablish_peer
should_try_to_reestablish_peer(ch) == ch.state = "DISCONNECTED"

\* LNWallet.reestablish_peers_and_channels: one pass of its loop over the
\* channels in `order`, for channels whose peer is in the peers map (for the
\* others it spawns reestablish_peer_for_given_channel, see ReestablishPeer)
RECURSIVE reestablish_peers_and_channels(_, _)
reestablish_peers_and_channels(st, order) ==
    IF order = <<>> THEN st
    ELSE LET c == Head(order)
             peer == st.peers[st.chan[c].node_id]
             st1 == IF is_closed(st.chan[c]) THEN st
                    ELSE IF ~should_try_to_reestablish_peer(st.chan[c]) THEN st
                    ELSE IF peer # NoPeer
                    THEN [st EXCEPT !.peer_objs[peer].reestablishing = @ \cup {c}]
                    ELSE st
         IN reestablish_peers_and_channels(st1, Tail(order))

\* Peer.reestablish_channel of Peer p ends: the channel is live again
reestablish_channel(st, p, c) ==
    [st EXCEPT !.peer_objs[p].reestablishing = @ \ {c},
               !.chan[c].state = "OPEN"]

----------------------------------------------------------------------------
(* Routing *)

NUM_MAX_EDGES_IN_PAYMENT_PATH == 20

\* lnaddr.LnAddr: a decoded invoice
LnAddr(paymenthash, amount, pubkey, r_tags, min_final_cltv_expiry, expired) ==
    [paymenthash |-> paymenthash, amount |-> amount, pubkey |-> pubkey, r_tags |-> r_tags,
     min_final_cltv_expiry |-> min_final_cltv_expiry, expired |-> expired]

\* lnrouter.RouteEdge
RouteEdge(node_id, short_channel_id, fee_base_msat, fee_proportional_millionths, cltv_expiry_delta) ==
    [node_id |-> node_id, short_channel_id |-> short_channel_id,
     fee_base_msat |-> fee_base_msat,
     fee_proportional_millionths |-> fee_proportional_millionths,
     cltv_expiry_delta |-> cltv_expiry_delta]

\* a routing policy of the channel db
Policy(fee_base_msat, fee_proportional_millionths, cltv_expiry_delta) ==
    [fee_base_msat |-> fee_base_msat,
     fee_proportional_millionths |-> fee_proportional_millionths,
     cltv_expiry_delta |-> cltv_expiry_delta]

\* the public channels of the channel db that are not ours: n1 - n3, n2 - n4
PublicChannels ==
    { [start |-> "n1", end |-> "n3", short_channel_id |-> ShortChannelID(200, 0, 0),
       policy |-> Policy(1000, 1, 144)],
      [start |-> "n2", end |-> "n4", short_channel_id |-> ShortChannelID(201, 0, 0),
       policy |-> Policy(1000, 1, 9000)] }

\* the policies the channel db stored for private channels after earlier failures
StoredPrivatePolicies ==
    { [start |-> "n2", short_channel_id |-> ShortChannelID(302, 0, 0),
       policy |-> Policy(1000, 1, 144)],
      [start |-> "n1", short_channel_id |-> ShortChannelID(303, 0, 0),
       policy |-> Policy(1000, 1, 9000)] }

\* channel_db.get_routing_policy_for_channel(start_node_id, short_channel_id)
get_routing_policy_for_channel(start_node_id, short_channel_id) ==
    IF start_node_id = Me THEN Some(Policy(1000, 1, 144))
    ELSE { e.policy : e \in { x \in PublicChannels \cup StoredPrivatePolicies :
                                 /\ x.start = start_node_id
                                 /\ x.short_channel_id = short_channel_id } }

\* Channel.can_pay: HTLCs can be added to the channel
can_pay(ch, amount_msat) == ~is_closed(ch) /\ ch.state = "OPEN"

\* LNPathFinder.find_path_for_payment from our node: a sequence of <<node, scid>>
\* over one of our channels that can pay, then public channels; <<>> if none
find_path_for_payment(st, nodeA, nodeB, amount_msat) ==
    LET mine == { c \in st.channels : /\ can_pay(st.chan[c], amount_msat)
                                      /\ st.chan[c].short_channel_id # None }
        direct == { c \in mine : st.chan[c].node_id = nodeB }
        two == { ce \in mine \X PublicChannels :
                    /\ st.chan[ce[1]].node_id = ce[2].start
                    /\ ce[2].end = nodeB }
    IN IF direct # {}
       THEN LET c == CHOOSE c \in direct : TRUE
            IN << <<nodeB, TheVal(st.chan[c].short_channel_id)>> >>
       ELSE IF two # {}
       THEN LET ce == CHOOSE ce \in two : TRUE
            IN << <<ce[2].start, TheVal(st.chan[ce[1]].short_channel_id)>>,
                  <<nodeB, ce[2].short_channel_id>> >>
       ELSE <<>>

\* LNPathFinder.create_route_from_path
create_route_from_path(path, from_node_id) ==
    [i \in 1..Len(path) |->
        LET prev_node_id == IF i = 1 THEN from_node_id ELSE path[i-1][1]
            policy == TheVal(get_routing_policy_for_channel(prev_node_id, path[i][2]))
        IN RouteEdge(path[i][1], path[i][2], policy.fee_base_msat,
                     policy.fee_proportional_millionths, policy.cltv_expiry_delta)]

\* RouteEdge.fee_for_edge
fee_for_edge(route_edge, amount_msat) ==
    route_edge.fee_base_msat
      + (amount_msat * route_edge.fee_proportional_millionths) \div 1000000

\* lnrouter.is_fee_sane
is_fee_sane(fee_msat, payment_amount_msat) ==
    fee_msat <= 5000 \/ 100 * fee_msat <= payment_amount_msat

\* RouteEdge.is_sane_to_use
is_sane_to_use(route_edge, amount_msat) ==
    /\ route_edge.cltv_expiry_delta <= 14 * 144
    /\ is_fee_sane(fee_for_edge(route_edge, amount_msat), amount_msat)

\* the loop of is_route_sane_to_use over reversed(route[1:]), from edge i down
RECURSIVE route_walk(_, _, _, _)
route_walk(route, i, amt, cltv) ==
    IF i < 2 THEN [ok |-> TRUE, amt |-> amt, cltv |-> cltv]
    ELSE IF ~is_sane_to_use(route[i], amt) THEN [ok |-> FALSE, amt |-> amt, cltv |-> cltv]
    ELSE route_walk(route, i - 1, amt + fee_for_edge(route[i], amt),
                    cltv + route[i].cltv_expiry_delta)

\* lnrouter.is_route_sane_to_use
is_route_sane_to_use(route, invoice_amount_msat, min_final_cltv_expiry) ==
    /\ Len(route) <= NUM_MAX_EDGES_IN_PAYMENT_PATH
    /\ LET w == route_walk(route, Len(route), invoice_amount_msat, min_final_cltv_expiry)
       IN /\ w.ok
          /\ w.cltv <= 60 * 144
          /\ is_fee_sane(w.amt - invoice_amount_msat, invoice_amount_msat)

\* the private edges of a routing hint, appended to the route to its border node
private_edges(private_route, invoice_pubkey) ==
    [i \in 1..Len(private_route) |->
        LET node_pubkey == IF i < Len(private_route) THEN private_route[i+1][1]
                           ELSE invoice_pubkey
            prev_node_id == private_route[i][1]
            short_channel_id == private_route[i][2]
            channel_policy == get_routing_policy_for_channel(prev_node_id, short_channel_id)
        IN IF channel_policy # None
           THEN RouteEdge(node_pubkey, short_channel_id,
                          TheVal(channel_policy).fee_base_msat,
                          TheVal(channel_policy).fee_proportional_millionths,
                          TheVal(channel_policy).cltv_expiry_delta)
           ELSE RouteEdge(node_pubkey, short_channel_id, private_route[i][3],
                          private_route[i][4], private_route[i][5])]

\* the value of `route` after a hint's route is found insane
rejected_route_kept(route) == Some(route)

rejected_route(route) == None

\* the loop of _create_route_from_invoice over the shuffled hints: the value of
\* `route` when the loop ends
RECURSIVE hint_loop(_, _, _, _, _)
hint_loop(st, decoded_invoice, amount_msat, r_tags, route) ==
    IF r_tags = <<>> THEN route
    ELSE LET private_route == Head(r_tags)
         IN IF Len(private_route) = 0
            THEN hint_loop(st, decoded_invoice, amount_msat, Tail(r_tags), route)
            ELSE IF Len(private_route) > NUM_MAX_EDGES_IN_PAYMENT_PATH
            THEN hint_loop(st, decoded_invoice, amount_msat, Tail(r_tags), route)
            ELSE LET border_node_pubkey == private_route[1][1]
                     path == find_path_for_payment(st, Me, border_node_pubkey, amount_msat)
                     new_route == create_route_from_path(path, Me)
                                    \o private_edges(private_route, decoded_invoice.pubkey)
                 IN IF path = <<>>
                    THEN hint_loop(st, decoded_invoice, amount_msat, Tail(r_tags), route)
                    ELSE IF ~is_route_sane_to_use(new_route, amount_msat,
                                                  decoded_invoice.min_final_cltv_expiry)
                    THEN hint_loop(st, decoded_invoice, amount_msat, Tail(r_tags),
                                   rejected_route(new_route))
                    ELSE Some(new_route)

\* the outcome of _create_route_from_invoice: the route it returns or its exception
RouteResult(route, exc) == [route |-> route, exc |-> exc]

\* LNWallet._create_route_from_invoice; r_tags: the hints after random.shuffle
_create_route_from_invoice(st, decoded_invoice, r_tags) ==
    IF decoded_invoice.amount = None THEN RouteResult(None, "TypeError")
    ELSE LET amount_msat == TheVal(decoded_invoice.amount) * 1000
             route == hint_loop(st, decoded_invoice, amount_msat, r_tags, None)
             path == find_path_for_payment(st, Me, decoded_invoice.pubkey, amount_msat)
             direct == create_route_from_path(path, Me)
         IN IF route # None THEN RouteResult(route, "")
            ELSE IF path = <<>> THEN RouteResult(None, "PaymentFailure: No path found")
            ELSE IF ~is_route_sane_to_use(direct, amount_msat,
                                          decoded_invoice.min_final_cltv_expiry)
            THEN RouteResult(None, "PaymentFailure: No path found")
            ELSE RouteResult(Some(direct), "")

----------------------------------------------------------------------------
(* Routing hints of our invoices *)

\* what the channel db holds of our own channels: the policy of the remote
\* node n1 for channel c1; nothing for c2
OurChannelPolicies ==
    { [start |-> "n1", short_channel_id |-> ShortChannelID(100, 0, 0),
       policy |-> Policy(1000, 1, 144)] }

\* channel_db.get_channel_info(chan_id) and channel_db.get_policy_for_node(
\* channel_info.short_channel_id, node_id): None when either is missing
get_policy_for_node(short_channel_id, node_id) ==
    { e.policy : e \in { x \in OurChannelPolicies :
                             /\ x.short_channel_id = short_channel_id
                             /\ x.start = node_id } }

\* the test of _calc_routing_hints_for_invoice on the state, without it
any_state(ch) == TRUE

\* the test of _calc_routing_hints_for_invoice on the state of a channel
is_open_state(ch) == ch.state = "OPEN"

\* the 'r' tag of a channel
RoutingHint(node_id, chan_id, fee_base_msat, fee_proportional_millionths, cltv_expiry_delta) ==
    <<"r", << <<node_id, chan_id, fee_base_msat, fee_proportional_millionths,
                cltv_expiry_delta>> >> >>

\* the outcome of _calc_routing_hints_for_invoice: routing_hints or its exception
HintsResult(routing_hints, exc) == [routing_hints |-> routing_hints, exc |-> exc]

\* LNWallet._calc_routing_hints_for_invoice: its loop over the snapshot `order`
RECURSIVE _calc_routing_hints_for_invoice(_, _, _, _)
_calc_routing_hints_for_invoice(st, amount_sat, order, routing_hints) ==
    IF order = <<>> THEN HintsResult(routing_hints, "")
    ELSE LET ch == st.chan[Head(order)]
             policy == get_policy_for_node(TheVal(ch.short_channel_id), ch.node_id)
         IN IF ~is_open_state(ch)
            THEN _calc_routing_hints_for_invoice(st, amount_sat, Tail(order), routing_hints)
            ELSE IF /\ amount_sat # None
                    /\ TheVal(amount_sat) # 0
                    /\ ch.remote_balance_msat \div 1000 < TheVal(amount_sat)
            THEN _calc_routing_hints_for_invoice(st, amount_sat, Tail(order), routing_hints)
            ELSE IF ch.short_channel_id = None THEN HintsResult(routing_hints, "AssertionError")
            ELSE _calc_routing_hints_for_invoice(st, amount_sat, Tail(order),
                    Append(routing_hints,
                           IF policy # None
                           THEN RoutingHint(ch.node_id, TheVal(ch.short_channel_id),
                                            TheVal(policy).fee_base_msat,
                                            TheVal(policy).fee_proportional_millionths,
                                            TheVal(policy).cltv_expiry_delta)
                           ELSE RoutingHint(ch.node_id, TheVal(ch.short_channel_id), 0, 0, 1)))

\* a call of _calc_routing_hints_for_invoice: the caller keeps the hints it returns
calc_hints_call(st, amount_sat, order) ==
    LET r == _calc_routing_hints_for_invoice(st, amount_sat, order, <<>>)
    IN [st EXCEPT !.caller.hints = r.routing_hints, !.exc = r.exc, !.args = <<amount_sat>>]

----------------------------------------------------------------------------
(* Payment engine *)

\* the _pay coroutines that may run at the same time
PayIds == {"p1", "p2"}

\* a _pay coroutine that was not started
IdlePay == [pc |-> "idle", addr |-> None, attempts |-> 0, i |-> 0, route |-> None,
            key |-> None, result |-> "", direct |-> FALSE]

\* the worker behind a node id: n1 is worker B; n2 has no wallet here
WorkerOf(node_id) == IF node_id = "n1" THEN Some("B") ELSE None

\* LNWallet.set_invoice_status of worker w, with the callback it triggers
set_status(st, w, payment_hash, status) ==
    [st EXCEPT !.lnwallet[w] = set_invoice_status(@, payment_hash, status),
               !.events = @ \cup set_invoice_status_events(@, w, st.lnwallet[w],
                                                           payment_hash, status)]

\* LNWallet._check_invoice: the exception it raises, "" if none
_check_invoice(addr, amount_sat) ==
    IF addr.expired THEN "InvoiceError: This invoice has expired"
    ELSE IF (IF amount_sat # None THEN amount_sat ELSE addr.amount) = None
    THEN "InvoiceError: Missing amount"
    ELSE IF addr.min_final_cltv_expiry > 60 * 144
    THEN "InvoiceError: Invoice wants us to risk locking funds for unreasonably long."
    ELSE ""

\* the exceptions of class PaymentFailure
PaymentFailures ==
    { "PaymentFailure: This invoice has been paid already",
      "PaymentFailure: No path found",
      "PaymentFailure: Channel not open",
      "PaymentFailure: Channel closed" }

\* the HTLCs of a channel that are neither fulfilled nor failed
Unsettled(ch) == { h \in ch.htlcs : h.settled = "" }

\* Peer.pay: refuses a channel that is not open or is closed, else adds an HTLC
Peer_pay(st, c, amount_msat, payment_hash, min_final_cltv_expiry) ==
    IF st.chan[c].state # "OPEN" THEN Raise(st, "PaymentFailure: Channel not open")
    ELSE IF is_closed(st.chan[c]) THEN Raise(st, "PaymentFailure: Channel closed")
    ELSE [st EXCEPT !.chan[c].htlcs = @ \cup
             { UpdateAddHtlc(Cardinality(@), HTLCOwner_LOCAL, amount_msat, payment_hash,
                             st.local_height + min_final_cltv_expiry, FALSE,
                             { <<HTLCOwner_LOCAL, st.chan[c].local_latest_ctn>>,
                               <<HTLCOwner_REMOTE, st.chan[c].local_latest_ctn>> }) }]

\* the key of the future _pay_to_route will wait for: (short_channel_id, htlc_id)
payment_key(st, route) ==
    LET cs == get_channel_by_short_id(st, Some(route[1].short_channel_id))
    IN <<route[1].short_channel_id,
         Cardinality(st.chan[CHOOSE c \in cs : TRUE].htlcs)>>

\* LNWallet._pay_to_route up to its await of the pending_payments future
_pay_to_route_send(st, route, addr) ==
    LET short_channel_id == route[1].short_channel_id
        cs == get_channel_by_short_id(st, Some(short_channel_id))
    IN IF cs = {} THEN Raise(st, "Exception")
       ELSE LET c == CHOOSE c \in cs : TRUE
                st1 == set_status(st, Me, addr.paymenthash, PR_INFLIGHT)
            IN IF st1.peers[route[1].node_id] = NoPeer THEN Raise(st1, "KeyError")
               ELSE IF addr.amount = None THEN Raise(st1, "TypeError")
               ELSE Peer_pay(st1, c, TheVal(addr.amount) * 1000, addr.paymenthash,
                             addr.min_final_cltv_expiry)

\* the status _pay_to_route stores when the future has its result
final_status_unpaid(success) == PR_UNPAID

final_status(success) == IF success THEN PR_PAID ELSE PR_UNPAID

\* LNWallet._pay_to_route after its await of the pending_payments future
_pay_to_route_finish(st, addr, success) ==
    set_status(st, Me, addr.paymenthash, final_status(success))

\* the coroutine p ends: it returned result or raised it
finish(st, p, result) ==
    [st EXCEPT !.pay[p].pc = "done", !.pay[p].result = result, !.exc = result]

\* a future of pending_payments: its key and its result (None while it has none)
Future(key, result) == [key |-> key, result |-> result]

\* a plain dict in which every read stores a new future under the key
pending_payment_fresh(pp, key) == { f \in pp : f.key # key } \cup {Future(key, None)}

\* pending_payments[key]: the defaultdict creates the future on the first access
pending_payment(pp, key) ==
    IF \E f \in pp : f.key = key THEN pp ELSE pp \cup {Future(key, None)}

\* the coroutine p reads pending_payments[key] and is suspended at its await
suspend(st, p, key) ==
    [st EXCEPT !.pay[p].pc = "await", !.pay[p].key = Some(key), !.exc = "await",
               !.pending_payments = pending_payment(@, key)]

\* a loop that runs its body once more than range(attempts) has values
range_overrun(i, attempts) == i > attempts

\* `for i in range(attempts)` has no value left for the iteration i
range_done(i, attempts) == i >= attempts

\* the loop of _pay from iteration pay[p].i on, until the coroutine awaits a
\* future or ends; r_tags: the hints after random.shuffle
pay_attempt(st, p, r_tags) ==
    LET me == st.pay[p]
        addr == TheVal(me.addr)
        r == _create_route_from_invoice(st, addr, r_tags)
    IN IF range_done(me.i, me.attempts) THEN finish(st, p, "False")
       ELSE IF r.exc # "" THEN finish(st, p, r.exc)
       ELSE LET route == TheVal(r.route)
                st1 == [st EXCEPT !.pay[p].route = r.route]
                st2 == _pay_to_route_send(st1, route, addr)
            IN IF get_channel_by_short_id(st, Some(route[1].short_channel_id)) = {}
               THEN finish(st1, p, "Exception")
               ELSE IF st2.exc # "" THEN finish(st2, p, st2.exc)
               ELSE suspend(st2, p, payment_key(st1, route))

\* the test of _pay on the stored status
never_paid(status) == FALSE

already_paid(status) == status = PR_PAID

\* LNWallet._pay up to its first await of a future
_pay(st, p, lnaddr, amount_sat, attempts, r_tags) ==
    LET status == get_invoice_status(st.lnwallet[Me], lnaddr.paymenthash)
        info == InvoiceInfo(lnaddr.paymenthash, lnaddr.amount, SENT, PR_UNPAID)
        st0 == [st EXCEPT !.pay[p] = [IdlePay EXCEPT !.pc = "start", !.addr = Some(lnaddr),
                                                     !.attempts = attempts]]
        st1 == [st0 EXCEPT !.lnwallet[Me] = save_invoice_info(@, info)]
    IN IF already_paid(status)
       THEN finish(st0, p, "PaymentFailure: This invoice has been paid already")
       ELSE IF _check_invoice(lnaddr, amount_sat) # ""
       THEN finish(st1, p, _check_invoice(lnaddr, amount_sat))
       ELSE pay_attempt(st1, p, r_tags)

\* the result of the future the coroutine p awaits
future_of(st, p) ==
    UNION { f.result : f \in { g \in st.pending_payments : Some(g.key) = st.pay[p].key } }

\* LNWallet._pay resumed by the result of its future, until it awaits again or ends
_pay_resume(st, p, r_tags) ==
    LET success == TheVal(future_of(st, p))
        st1 == _pay_to_route_finish(st, TheVal(st.pay[p].addr), success)
    IN IF success THEN finish(st1, p, "True")
       ELSE IF st.pay[p].direct THEN finish(st1, p, "False")
       ELSE pay_attempt([st1 EXCEPT !.pay[p].i = @ + 1], p, r_tags)

\* a direct call of _pay_to_route with a route built earlier, up to its await
_pay_to_route(st, p, route, addr) ==
    LET st0 == [st EXCEPT !.pay[p] = [IdlePay EXCEPT !.pc = "start", !.addr = Some(addr),
                                                     !.route = Some(route),
                                                     !.direct = TRUE]]
        st1 == _pay_to_route_send(st0, route, addr)
    IN IF st1.exc # "" THEN finish(st1, p, st1.exc)
       ELSE suspend(st1, p, payment_key(st0, route))

\* _pay_to_route until it is suspended inside `await peer.pay(...)`: the HTLC
\* is in the channel, pending_payments was not read yet
_pay_to_route_sent(st, p, route, addr) ==
    LET st0 == [st EXCEPT !.pay[p] = [IdlePay EXCEPT !.pc = "start", !.addr = Some(addr),
                                                     !.route = Some(route),
                                                     !.direct = TRUE]]
        st1 == _pay_to_route_send(st0, route, addr)
    IN IF st1.exc # "" THEN finish(st1, p, st1.exc)
       ELSE [st1 EXCEPT !.pay[p].pc = "sent", !.pay[p].key = Some(payment_key(st0, route)),
                        !.exc = "await"]

\* _pay_to_route after peer.pay returned the HTLC: it reads
\* pending_payments[(short_channel_id, htlc.htlc_id)] and awaits the future
read_future(st, p) == suspend(st, p, TheVal(st.pay[p].key))

\* the remote Peer settles an HTLC of channel c: fulfilled or failed
settle_htlc(st, c, h, how) ==
    [st EXCEPT !.chan[c].htlcs = (@ \ {h}) \cup {[h EXCEPT !.settled = how, !.in_ctx = {}]}]

\* worker w can fulfil an HTLC: it holds a RECEIVED invoice and the preimage
can_fulfill(st, w, h) ==
    /\ get_invoice_info(st.lnwallet[w], h.payment_hash) # None
    /\ TheVal(get_invoice_info(st.lnwallet[w], h.payment_hash)).direction = RECEIVED
    /\ st.lnwallet[w].preimages[bh2u(h.payment_hash)] # NoHex

\* the Peer of the remote worker fulfils an HTLC it received
remote_fulfill_htlc(st, c, h) ==
    settle_htlc(set_status(st, TheVal(WorkerOf(st.chan[c].node_id)), h.payment_hash, PR_PAID),
                c, h, "fulfilled")

\* Peer.on_update_fulfill_htlc / the failed HTLC of a revoked commitment: the
\* future of the HTLC gets its result
set_result(st, c, h, success) ==
    LET key == <<TheVal(st.chan[c].short_channel_id), h.htlc_id>>
        pp == pending_payment(st.pending_payments, key)
    IN IF Future(key, None) \notin pp THEN Raise(st, "InvalidStateError")
       ELSE [st EXCEPT !.pending_payments =
                (pp \ {Future(key, None)}) \cup {Future(key, Some(success))}]

----------------------------------------------------------------------------
(* Initial states *)

\* LNWallet.__init__ of each worker: worker A's storage holds the channels cs
InitStore(cs, objs) ==
    /\ lnwallet = [w \in Workers |->
                     IF w = Me
                     THEN [NewWallet EXCEPT !.storage.channels =
                                               { serialize(c, objs[c]) : c \in cs }]
                     ELSE NewWallet]
    /\ events = {}
    /\ ret = Ret("init", "")

\* LNWorker.__init__, start_network: no peers, nothing tried yet
InitPeers ==
    /\ peers = [n \in NodeIds |-> NoPeer]
    /\ peer_objs = <<>>
    /\ last_tried_peer = [a \in PeerAddrs |-> None]
    /\ now = 0

\* the Channel objects after channel establishment: c1 with node n1, c2 with node n2
\* c1 has 200_000 sat on the remote side, c2 just under 100_000 sat
OpeningChanObjs ==
    [c \in ChanIds |->
        IF c = "c1" THEN [NewChannel("n1", 0, 2) EXCEPT !.remote_balance_msat = 200000000]
        ELSE [NewChannel("n2", 1, 3) EXCEPT !.remote_balance_msat = 99999999]]

\* the Channel objects, open, with their short channel ids
OpenChanObjs ==
    [c \in ChanIds |->
        [OpeningChanObjs[c] EXCEPT !.state = "OPEN",
             !.short_channel_id =
                 Some(ShortChannelID(100, 0, OpeningChanObjs[c].output_index)),
             !.short_channel_id_predicted =
                 Some(ShortChannelID(100, 0, OpeningChanObjs[c].output_index))]]

\* LNWallet.__init__: the channels cs are loaded from storage
InitChans(cs, objs, tx) ==
    /\ channels = cs
    /\ chan = objs
    /\ lnwatcher = [c \in ChanIds |-> tx]
    /\ local_height = 0

\* nobody called the payment engine yet, no thread is inside a writer
InitPay ==
    /\ caller = [addr |-> None, route |-> None, route_addr |-> None, hints |-> <<>>]
    /\ pay = [p \in PayIds |-> IdlePay]
    /\ pending_payments = {}
    /\ threads = [t \in ThreadIds |-> IdleThread]
    /\ tasks = [t \in LoopNames \cup {"main_taskgroup"} |-> "running"]

\* worker A's storage holds the channels cs, and worker B issued an invoice:
\* _add_request_coro with this amount and preimage
InitStoreWithRequest(cs, objs, amount_sat, payment_preimage) ==
    /\ lnwallet = [w \in Workers |->
                     IF w = Me
                     THEN [NewWallet EXCEPT !.storage.channels =
                                               { serialize(c, objs[c]) : c \in cs }]
                     ELSE add_request_coro(NewWallet, amount_sat, payment_preimage).wallet]
    /\ events = {}
    /\ ret = Ret("init", "")

\* a wallet without channels; two channel objects are about to be saved
InitNoChans == InitStore({}, OpeningChanObjs) /\ InitChans({}, OpeningChanObjs, UnminedTx)

\* a wallet with two channels whose funding tx is not mined yet
InitOpeningChans ==
    InitStore(ChanIds, OpeningChanObjs) /\ InitChans(ChanIds, OpeningChanObjs, UnminedTx)

\* a wallet with two open channels
InitOpenChans ==
    InitStore(ChanIds, OpenChanObjs) /\ InitChans(ChanIds, OpenChanObjs, MinedTx(MaxConf, 100, 0))

----------------------------------------------------------------------------
(* Specification of the invoice / preimage store of one worker *)

InitPre == InitPeers /\ InitNoChans /\ InitPay

NextPre ==
    \/ SavePreimage("A")
    \/ AddRequest("A")

SpecPre == InitPre /\ [][NextPre]_vars

\* every (hash, preimage) pair of a preimage map hashes correctly
PreimagesValid(m) ==
    \A k \in HexKeys : m[k] # NoHex => bh2u(sha256(bfh(m[k]))) = k

\* C1: every (payment_hash, preimage) pair of the in-memory and of the persisted
\* preimage store satisfies SHA-256(preimage) = payment_hash, and a save_preimage
\* call that fails (its preimage does not hash to the given payment_hash) leaves
\* both stores unchanged.
C1_PreimageIntegrity ==
    /\ [](\A w \in Workers : /\ PreimagesValid(lnwallet[w].preimages)
                             /\ PreimagesValid(lnwallet[w].storage.lightning_preimages))
    /\ [][ret' = Ret("save_preimage", "AssertionError")
            => /\ lnwallet'["A"].preimages = lnwallet["A"].preimages
               /\ lnwallet'["A"].storage = lnwallet["A"].storage]_vars

\* a preimage was stored by add_request and a later save_preimage call was refused
C1_Witness ==
    /\ ret = Ret("save_preimage", "AssertionError")
    /\ \E k \in HexKeys : /\ lnwallet["A"].preimages[k] # NoHex
                          /\ lnwallet["A"].invoices[k] # NoInvoice

----------------------------------------------------------------------------
(* Specification of invoice statuses: requests are created, invoices to pay *)
(* are stored, Peers and payments set statuses                              *)

\* how often payment_received is triggered for one key in a behaviour
MaxFired == 2

\* the preimages of the requests, and the payment hashes of the invoices:
\* those of the two preimages and one that no invoice has
InvPreimages == { <<0>>, <<1>> }

InvHashes == { sha256(x) : x \in InvPreimages } \cup { <<2>> }

\* a call of add_request for 100_000 sat
RequestInvoice(w) ==
    \E payment_preimage \in InvPreimages :
       Commit("add_request",
              WithWallet(State, w, add_request_coro(lnwallet[w], Some(100000), payment_preimage)))

\* _pay stores the invoice it is about to pay, unless it is paid already
SaveSentInvoice(w) ==
    \E payment_preimage \in InvPreimages :
       /\ get_invoice_status(lnwallet[w], sha256(payment_preimage)) # PR_PAID
       /\ Commit("save_invoice_info",
              [State EXCEPT !.lnwallet[w] = save_invoice_info(@,
                    InvoiceInfo(sha256(payment_preimage), Some(100000), SENT, PR_UNPAID))])

\* set_invoice_status called by a Peer that settled an HTLC or by a payment
SetInvoiceStatus(w) ==
    \E payment_hash \in InvHashes, status \in {PR_UNPAID, PR_INFLIGHT, PR_PAID} :
       /\ TimesReceived(events, w, bh2u(payment_hash)) < MaxFired
       /\ Commit("set_invoice_status",
                 [set_status(State, w, payment_hash, status) EXCEPT
                     !.args = <<payment_hash, status>>])

NextInv ==
    \/ RequestInvoice("A")
    \/ SaveSentInvoice("A")
    \/ SetInvoiceStatus("A")

SpecInv == InitPre /\ [][NextInv]_vars

\* C15: set_invoice_status(hash, status) fires payment_received if and only if
\* an invoice for the hash existed, its direction is RECEIVED and this call
\* newly changed its status to PAID; a call for an unknown hash changes nothing
\* and fires nothing, and a repeated PAID on a PAID invoice fires nothing.
C15_PaymentReceivedIffNewlyPaid ==
    [][ret'.op = "set_invoice_status"
         => LET key == bh2u(ret'.args[1])
                before == lnwallet["A"].invoices[key]
                after == lnwallet'["A"].invoices[key]
            IN /\ (events' # events)
                    <=> /\ before # NoInvoice
                        /\ before[2] = RECEIVED
                        /\ before[3] # PR_PAID
                        /\ after[3] = PR_PAID
               /\ events' \ events \subseteq
                     { PaymentReceived("A", key, TimesReceived(events, "A", key) + 1) }
               /\ before = NoInvoice => lnwallet' = lnwallet]_vars

----------------------------------------------------------------------------
(* Specification of the deletion of invoices *)

\* LNWallet.delete_invoice: the wallet after the call
delete_invoice(self, payment_hash_hex) ==
    IF self.invoices[payment_hash_hex] = NoInvoice THEN self
    ELSE LET d == [self.invoices EXCEPT ![payment_hash_hex] = NoInvoice]
         IN [self EXCEPT !.invoices = d, !.storage.lightning_invoices = d]

\* LNWallet.__init__ on the storage of a wallet: invoices and preimages are loaded
load_wallet(self) ==
    [self EXCEPT !.invoices = self.storage.lightning_invoices2,
                 !.preimages = self.storage.lightning_preimages]

\* a call of delete_invoice
DeleteInvoice(w) ==
    \E payment_hash \in InvHashes :
       Commit("delete_invoice",
              [State EXCEPT !.lnwallet[w] = delete_invoice(@, bh2u(payment_hash)),
                            !.args = <<bh2u(payment_hash)>>])

\* the worker is created again from its storage
LoadWallet(w) ==
    Commit("__init__", [State EXCEPT !.lnwallet[w] = load_wallet(@)])

NextDelete ==
    \/ RequestInvoice("A")
    \/ SaveSentInvoice("A")
    \/ DeleteInvoice("A")
    \/ LoadWallet("A")

SpecDelete == InitPre /\ [][NextDelete]_vars

\* C38: after delete_invoice(h) for a stored hash h the invoice map persisted
\* under lightning_invoices2, the key the worker loads at start-up, no longer
\* contains h; delete_invoice of an unknown hash changes nothing.
C38_DeleteInvoiceDurable ==
    [][ret'.op = "delete_invoice"
         => IF lnwallet["A"].invoices[ret'.args[1]] # NoInvoice
            THEN lnwallet'["A"].storage.lightning_invoices2[ret'.args[1]] = NoInvoice
            ELSE lnwallet' = lnwallet]_vars

----------------------------------------------------------------------------
(* Specification of the peer map: outbound connections, inbound connections *)
(* and peers whose main loop ends                                           *)

\* _add_peer called by the Peer Manager loop, _add_peers_from_config, add_peer
\* or reestablish_peer_for_given_channel
AddPeer ==
    \E host \in Hosts, port \in Ports, node_id \in NodeIds :
       /\ (peers[node_id] = NoPeer => Len(peer_objs) < MaxPeers)
       /\ Commit("_add_peer", _add_peer(State, host, port, node_id))

\* an inbound connection is accepted and its handshake succeeds
InboundConnection ==
    \E node_id \in NodeIds :
       /\ Len(peer_objs) < MaxPeers
       /\ Commit("maybe_listen_cb", maybe_listen_cb(State, node_id))

\* an inbound connection is accepted and its handshake fails
InboundHandshakeFailure ==
    /\ Len(peer_objs) < MaxPeers
    /\ Commit("maybe_listen_cb_handshake_failure", State)

\* the main loop of a Peer ends: its task group is cancelled and it calls
\* lnworker.peer_closed(self)
close_and_cleanup(st, p) ==
    [peer_closed(st, p) EXCEPT !.peer_objs[p].running = FALSE,
                               !.peer_objs[p].reestablishing = {},
                               !.args = <<p>>]

PeerClosed ==
    \E p \in RunningPeers : Commit("peer_closed", close_and_cleanup(State, p))

InitPeersSpec == InitPeers /\ InitOpenChans /\ InitPay

\* the feature bits a remote's init message can advertise
FeatureSets == { {}, {"DATA_LOSS_PROTECT"} }

\* the feature bits the worker requires of the remote (localfeatures)
RequiredFeatures == {"DATA_LOSS_PROTECT"}

\* the main loop of Peer p reads the remote's init message: without the required
\* features the connection is closed, the loop ends and calls peer_closed
process_init(st, p, features) ==
    LET st1 == [st EXCEPT !.peer_objs[p].their_features = Some(features)]
    IN IF RequiredFeatures \subseteq features
       THEN [st1 EXCEPT !.peer_objs[p].initialized = TRUE, !.args = <<p, features>>]
       ELSE [close_and_cleanup(st1, p) EXCEPT !.args = <<p, features>>]

ProcessInit ==
    \E p \in RunningPeers, features \in FeatureSets :
       /\ peer_objs[p].their_features = None
       /\ Commit("process_init", process_init(State, p, features))

NextPeers ==
    \/ AddPeer
    \/ InboundConnection
    \/ InboundHandshakeFailure
    \/ PeerClosed

SpecPeers == InitPeersSpec /\ [][NextPeers]_vars

\* C2: there is at most one Peer per node_pubkey: every Peer whose main loop has
\* been spawned and has not closed is the one registered in the peers map under
\* its pubkey.
C2_PeerUniqueness ==
    \A p \in RunningPeers : peers[peer_objs[p].pubkey] = p

\* C19: when a Peer's loop ends and calls peer_closed(peer), the peer's pubkey is
\* removed from the peers map and every channel whose node_id is that pubkey has
\* its state set to DISCONNECTED; the entries of other pubkeys and the channels
\* of other pubkeys are unchanged.
C19_PeerClosedFrame ==
    [][ret'.op = "peer_closed"
         => LET pubkey == peer_objs[ret'.args[1]].pubkey
            IN /\ peers' = [peers EXCEPT ![pubkey] = NoPeer]
               /\ channels' = channels
               /\ chan' = [c \in ChanIds |->
                              IF c \in channels /\ chan[c].node_id = pubkey
                              THEN [chan[c] EXCEPT !.state = "DISCONNECTED"]
                              ELSE chan[c]]]_vars

\* a Peer was closed while another pubkey has its entry and its open channel
C19_Witness ==
    /\ ret.op = "peer_closed"
    /\ ret.result = ""
    /\ LET pubkey == peer_objs[ret.args[1]].pubkey
       IN /\ peers[pubkey] = NoPeer
          /\ \E c \in channels : chan[c].node_id = pubkey /\ chan[c].state = "DISCONNECTED"
          /\ \E n \in NodeIds \ {pubkey} :
                /\ peers[n] # NoPeer
                /\ \E c \in channels : chan[c].node_id = n /\ chan[c].state = "OPEN"

----------------------------------------------------------------------------
(* Specification of the channel store *)

SaveChannel ==
    \E c \in ChanIds :
       LET st == save_channel(State, c) IN Commit("save_channel", st)

SaveChannels ==
    /\ channels # {}
    /\ Commit("save_channels", save_channels(State))

RemoveChannel ==
    \E c \in ChanIds :
       LET st == remove_channel([State EXCEPT !.args = <<c>>], c)
       IN Commit("remove_channel", st)

ForceCloseChannel ==
    \E c \in ChanIds, bcast_ok \in BOOLEAN :
       LET st == force_close_channel([State EXCEPT !.args = <<c, bcast_ok>>], c, bcast_ok)
       IN Commit("force_close_channel", st)

\* Channel.receive_revocation: the remote's next point becomes its current one,
\* and the revocation message gives its new next point
receive_revocation(st, c, next_per_commitment_point) ==
    [st EXCEPT !.chan[c].remote_current_pcp = st.chan[c].remote_next_pcp,
               !.chan[c].remote_next_pcp = next_per_commitment_point]

\* Peer.on_revoke_and_ack: the channel object takes the revocation and is saved
on_revoke_and_ack(st, c, next_per_commitment_point) ==
    save_channel(receive_revocation(st, c, next_per_commitment_point), c)

OnRevokeAndAck ==
    \E c \in channels, pt \in Points :
       /\ ~is_closed(chan[c])
       /\ Commit("on_revoke_and_ack", on_revoke_and_ack(State, c, pt))

InitChan == InitPeers /\ InitNoChans /\ InitPay

NextChan ==
    \/ SaveChannel
    \/ SaveChannels
    \/ RemoveChannel
    \/ ForceCloseChannel
    \/ OnRevokeAndAck

SpecChan == InitChan /\ [][NextChan]_vars

\* C10: no channel of the persisted `channels` list has a remote
\* next_per_commitment_point equal to its remote current_per_commitment_point.
C10_NoStalePointPersisted ==
    \A x \in lnwallet[Me].storage.channels : x.remote_next_pcp # x.remote_current_pcp

\* C34: remove_channel(id) on a channel for which is_closed() is false fails and
\* leaves the channels map and the persisted channels list unchanged; on a
\* closed channel it removes exactly that channel from the map and persists the
\* remaining channels.
C34_RemoveRequiresClosed ==
    [][(ret'.op = "remove_channel" /\ ret'.args[1] \in channels)
       => LET c == ret'.args[1]
          IN IF ~is_closed(chan[c])
             THEN /\ ret'.result # ""
                  /\ channels' = channels
                  /\ lnwallet' = lnwallet
             ELSE /\ ret'.result = ""
                  /\ channels' = channels \ {c}
                  /\ lnwallet'[Me].storage.channels
                        = { serialize(x, chan[x]) : x \in channels \ {c} }]_vars

\* remove_channel was refused for a channel that is not closed, which is
\* still in the map, while the other channel is closed
C34_Witness ==
    /\ ret.op = "remove_channel"
    /\ ret.result = "AssertionError"
    /\ ret.args[1] \in channels
    /\ ~is_closed(chan[ret.args[1]])
    /\ \E c \in channels : is_closed(chan[c])

\* C40: force_close_channel sets the force_closed flag and persists the channel
\* before the commitment tx is handed to broadcast: if persisting fails no tx is
\* broadcast; if the broadcast fails the call returns no txid while the channel
\* is force-closed in memory and in storage; if it succeeds the txid is returned.
C40_ForceClosePersistedFirst ==
    [][(ret'.op = "force_close_channel" /\ ret'.args[1] \in channels)
       => LET c == ret'.args[1]
              bcast_ok == ret'.args[2]
          IN /\ chan'[c].force_closed
             /\ IF chan[c].remote_next_pcp = chan[c].remote_current_pcp
                THEN /\ ret'.result = "Exception: next_point == current_point"
                     /\ events' = events
                     /\ lnwallet' = lnwallet
                ELSE /\ serialize(c, chan'[c]) \in lnwallet'[Me].storage.channels
                     /\ \A x \in lnwallet'[Me].storage.channels :
                           x.channel_id = c => x.force_closed
                     /\ IF bcast_ok
                        THEN events' = events \cup {Broadcast(c)} /\ ret'.result = txid_of(c)
                        ELSE events' = events /\ ret'.result = ""]_vars

\* the broadcast of a force close failed: nothing was returned and the channel
\* is force-closed in storage
C40_Witness ==
    /\ ret.op = "force_close_channel"
    /\ ret.args[2] = FALSE
    /\ ret.result = ""
    /\ ret.args[1] \in channels
    /\ \E x \in lnwallet[Me].storage.channels : x.channel_id = ret.args[1] /\ x.force_closed
    /\ Broadcast(ret.args[1]) \notin events

----------------------------------------------------------------------------
(* Specification of the key-derivation counter: threads that call            *)
(* get_and_inc_counter_for_channel_keys, statement by statement              *)

\* the counter is handed out at most MaxKeys + 1 times
MaxKeys == 5

\* a `with self.lock:` that does not wait for the lock
lock_ignored(st, t) == TRUE

\* `with self.lock:` can be entered by thread t: no other thread is inside the
\* block (the lock is reentrant, and t itself is outside)
lock_free(st, t) == \A u \in ThreadIds \ {t} : st.threads[u].pc \in {"idle", "waiting"}

\* ctr = self.storage.get('lightning_channel_key_der_ctr', -1); ctr += 1
counter_read(st, t) ==
    LET stored == st.lnwallet[Me].storage.lightning_channel_key_der_ctr
        ctr == IF stored = None THEN -1 ELSE TheVal(stored)
    IN [st EXCEPT !.threads[t] = [pc |-> "incremented", ctr |-> ctr + 1]]

\* self.storage.put('lightning_channel_key_der_ctr', ctr); self.storage.write()
counter_put(st, t) ==
    [st EXCEPT !.lnwallet[Me].storage.lightning_channel_key_der_ctr = Some(st.threads[t].ctr),
               !.threads[t].pc = "stored"]

\* return ctr: the block is left
counter_return(st, t) ==
    [st EXCEPT !.threads[t] = IdleThread, !.args = <<t, st.threads[t].ctr>>, !.exc = ""]

\* a step inside the method: no call has returned
Inside(st) == Commit(ret.op, [st EXCEPT !.args = ret.args, !.exc = ret.result])

\* thread t calls the method and arrives at its `with self.lock:`
CounterCall(t) ==
    /\ threads[t].pc = "idle"
    /\ Inside([State EXCEPT !.threads[t].pc = "waiting"])

\* thread t enters the block
CounterEnter(t) ==
    /\ threads[t].pc = "waiting"
    /\ lock_free(State, t)
    /\ Inside([State EXCEPT !.threads[t].pc = "locked"])

CounterRead(t) ==
    /\ threads[t].pc = "locked"
    /\ lnwallet[Me].storage.lightning_channel_key_der_ctr # Some(MaxKeys)
    /\ Inside(counter_read(State, t))

CounterPut(t) ==
    /\ threads[t].pc = "incremented"
    /\ Inside(counter_put(State, t))

CounterReturn(t) ==
    /\ threads[t].pc = "stored"
    /\ Commit("get_and_inc_counter_for_channel_keys", counter_return(State, t))

NextCounter ==
    \/ \E t \in ThreadIds : CounterCall(t)
    \/ \E t \in ThreadIds : CounterEnter(t)
    \/ \E t \in ThreadIds : CounterRead(t)
    \/ \E t \in ThreadIds : CounterPut(t)
    \/ \E t \in ThreadIds : CounterReturn(t)

SpecCounter == InitChan /\ [][NextCounter]_vars

\* C35: under any interleaving of concurrent get_and_inc_counter_for_channel_keys
\* calls, every call returns a distinct value, successive returned values
\* increase by exactly 1 starting from 0 on a fresh wallet, and the persisted
\* lightning_channel_key_der_ctr equals the last value returned.
C35_KeyCounter ==
    [][ret' # ret
       => /\ ret'.op = "get_and_inc_counter_for_channel_keys"
          /\ ret'.args[2] = IF ret.op = "init" THEN 0 ELSE ret.args[2] + 1
          /\ lnwallet'[Me].storage.lightning_channel_key_der_ctr = Some(ret'.args[2])
          /\ \A t \in ThreadIds : threads'[t].pc # "stored"]_vars

\* the second thread got the value 1 after the first thread got 0
C35_Witness ==
    /\ ret = Call("get_and_inc_counter_for_channel_keys", <<"t2", 1>>, "")
    /\ lnwallet[Me].storage.lightning_channel_key_der_ctr = Some(1)
    /\ threads["t1"].pc = "waiting"

----------------------------------------------------------------------------
(* Specification of the writers of the channel store: threads inside        *)
(* remove_channel and save_channels, while channels are saved and closed    *)

\* thread t is not inside a writer
Idle(t) == threads[t].pc = "idle"

\* thread t calls remove_channel
RemoveChannelPop(t) ==
    \E c \in ChanIds :
       /\ Idle(t)
       /\ Commit("remove_channel_pop", remove_channel_pop(State, t, c))

\* thread t enters save_channels, called directly or by remove_channel
SaveChannelsDump(t) ==
    /\ threads[t].pc \in {"idle", "popped"}
    /\ Commit("save_channels_dump", save_channels_dump(State, t))

\* thread t stores what it dumped
SaveChannelsPut(t) ==
    /\ threads[t].pc = "dumped"
    /\ Commit("save_channels_put", save_channels_put(State, t))

NextWriters ==
    \/ \E t \in ThreadIds : Idle(t) /\ SaveChannel
    \/ \E t \in ThreadIds : Idle(t) /\ ForceCloseChannel
    \/ \E t \in ThreadIds : RemoveChannelPop(t)
    \/ \E t \in ThreadIds : SaveChannelsDump(t)
    \/ \E t \in ThreadIds : SaveChannelsPut(t)

SpecWriters == InitChan /\ [][NextWriters]_vars

\* C17: under any interleaving of the writers of different threads (save_channel,
\* remove_channel, save_channels), once all writers have finished the persisted
\* `channels` list equals the serialization of the in-memory channels map.
C17_WritersPersistAtomically ==
    (\A t \in ThreadIds : Idle(t))
    => lnwallet[Me].storage.channels = { serialize(x, chan[x]) : x \in channels }

----------------------------------------------------------------------------
(* Specification of the channel lifecycle *)

\* the network triggers one of the callbacks on_network_update is registered for
NetworkCallback(callbacks, senders, bcast) ==
    \E event \in callbacks, from_lnwatcher \in senders,
       order \in Orders(channels), bcast_ok \in bcast :
       Commit("on_network_update",
              on_network_update(State, event, from_lnwatcher, order, bcast_ok))

OnNetworkUpdate == NetworkCallback(NetworkEvents, BOOLEAN, BOOLEAN)

\* save_short_chan_id called on a channel
SaveShortChanId ==
    \E c \in channels :
       Commit("save_short_chan_id", [save_short_chan_id(State, c) EXCEPT !.args = <<c>>])

\* the places (block height, position in the block) a funding tx is mined at
TxPlaces == {<<100, 0>>, <<101, 1>>}

\* LNWatcher learns a new height of a funding tx: it is mined, buried deeper, or
\* a reorganisation moves it to another block or position
FundingTxUpdate ==
    \E c \in channels, conf \in 0..MaxConf, place \in TxPlaces :
       /\ lnwatcher' = [lnwatcher EXCEPT ![c] =
                           IF conf = 0 THEN UnminedTx
                           ELSE MinedTx(conf, place[1], place[2])]
       /\ lnwatcher'[c] # lnwatcher[c]
       /\ ret' = Ret("lnwatcher", "")
       /\ UNCHANGED <<lnwallet, events, peerVars, channels, chan, local_height, payVars>>

\* Peer.mark_open: funding_locked was sent and received
mark_open(st, c) == [st EXCEPT !.chan[c].state = "OPEN"]

MarkOpen ==
    \E c \in channels :
       /\ chan[c].state = "OPENING"
       /\ chan[c].short_channel_id # None
       /\ PeerCall("send_funding_locked", c) \in events
       /\ Commit("mark_open", mark_open(State, c))

\* both remote nodes are connected
InitPeersConnected ==
    /\ peers = [n \in NodeIds |-> IF n = "n1" THEN 1 ELSE 2]
    /\ peer_objs = <<NewPeer("n1"), NewPeer("n2")>>
    /\ last_tried_peer = [a \in PeerAddrs |-> None]
    /\ now = 0

\* a wallet with one channel whose funding tx is not mined yet
InitOneOpeningChan ==
    InitStore({"c1"}, OpeningChanObjs) /\ InitChans({"c1"}, OpeningChanObjs, UnminedTx)

InitLife == InitPeersConnected /\ InitOneOpeningChan /\ InitPay

NextLife ==
    \/ OnNetworkUpdate
    \/ SaveShortChanId
    \/ FundingTxUpdate
    \/ MarkOpen
    \/ PeerClosed
    \/ ForceCloseChannel

SpecLife == InitLife /\ [][NextLife]_vars

\* C9: once a channel's short_channel_id is non-null, no on_network_update tick,
\* save_short_chan_id call or funding-tx height change ever changes it.
C9_ScidNeverChanges ==
    [][\A c \in ChanIds : chan[c].short_channel_id # None
          => chan'[c].short_channel_id = chan[c].short_channel_id]_vars

----------------------------------------------------------------------------
(* Specification of the short channel id: funding txs are mined and buried, *)
(* save_short_chan_id is called, revocations arrive                         *)

\* two opening channels: c1 wants 2 confirmations, c2 has minimum depth 0
DepthChanObjs ==
    [c \in ChanIds |->
        IF c = "c2" THEN [OpeningChanObjs[c] EXCEPT !.funding_txn_minimum_depth = 0]
        ELSE OpeningChanObjs[c]]

InitDepth ==
    /\ InitPeersConnected
    /\ InitStore(ChanIds, DepthChanObjs)
    /\ InitChans(ChanIds, DepthChanObjs, UnminedTx)
    /\ InitPay

NextDepth ==
    \/ SaveShortChanId
    \/ FundingTxUpdate
    \/ OnRevokeAndAck

SpecDepth == InitDepth /\ [][NextDepth]_vars

\* the short id save_short_chan_id predicts for channel c
Predicted(c) ==
    IF lnwatcher[c].conf > 0
    THEN Some(ShortChannelID(lnwatcher[c].height, lnwatcher[c].tx_pos, chan[c].output_index))
    ELSE chan[c].short_channel_id_predicted

\* C22: save_short_chan_id sets and persists chan.short_channel_id only if the
\* confirmation depth of the funding tx is >= funding_txn_minimum_depth and
\* funding_txn_minimum_depth > 0; otherwise only the predicted short id is
\* updated (at depth > 0), short_channel_id stays as it is and nothing is
\* persisted.
C22_ScidOnlyWhenDeepEnough ==
    [][ret'.op = "save_short_chan_id"
         => LET c == ret'.args[1]
                min_depth == chan[c].funding_txn_minimum_depth
                deep == lnwatcher[c].conf >= min_depth /\ min_depth > 0
            IN /\ \A d \in ChanIds \ {c} : chan'[d] = chan[d]
               /\ ~deep => /\ chan'[c] = [chan[c] EXCEPT
                                             !.short_channel_id_predicted = Predicted(c)]
                           /\ lnwallet' = lnwallet
               /\ deep => /\ chan'[c] = [chan[c] EXCEPT
                                            !.short_channel_id_predicted = Predicted(c),
                                            !.short_channel_id = Predicted(c)]
                          /\ ret'.result = ""
                                => serialize(c, chan'[c]) \in lnwallet'[Me].storage.channels]_vars

\* save_short_chan_id was called on a channel whose funding tx is mined but not
\* deep enough: the short id is predicted and not set
C22_Witness ==
    /\ ret.op = "save_short_chan_id"
    /\ LET c == ret.args[1]
       IN /\ lnwatcher[c].conf > 0
          /\ lnwatcher[c].conf < chan[c].funding_txn_minimum_depth
          /\ chan[c].short_channel_id_predicted # None
          /\ chan[c].short_channel_id = None

----------------------------------------------------------------------------
(* Specification of channel states: ticks, closes seen on chain, disconnects *)
(* and reestablishment                                                       *)

\* the funding tx and the closing tx of a channel as LNWatcher reports them
FundingInfo == TxInfo("funding_tx", 100, 1000)
ClosingInfo == TxInfo("closing_tx", 105, 2000)

\* the outputs of a closing tx the channel can sweep, with what is known of each:
\* an output nobody spent yet, and an HTLC output spent by an HTLC tx
SweepLists ==
    { << SweepItem("closing_tx:0", SweepInfo("our_ctx_to_local", 0, 0, Some("sweep0")),
                   1, None, None, FALSE, 0) >>,
      << SweepItem("closing_tx:1", SweepInfo("our_ctx_htlc", 0, 0, Some("sweep1")),
                   1, Some("htlc_tx"),
                   Some(SweepInfo("second_stage", 0, 0, Some("sweep2"))), FALSE, 1) >> }

\* LNWatcher triggers channel_closed for a funding outpoint that was spent
OnChannelClosed ==
    \E funding_outpoint \in { Outpoint(c) : c \in ChanIds } \cup {OtherOutpoint},
       items \in SweepLists, bcast_ok \in BOOLEAN :
       Commit("on_channel_closed",
              on_channel_closed([State EXCEPT !.args = <<funding_outpoint>>], funding_outpoint,
                                FundingInfo, ClosingInfo, items, bcast_ok))

\* one pass of the reestablishment loop
ReestablishPeersAndChannels ==
    \E order \in Orders(channels) :
       Commit("reestablish_peers_and_channels", reestablish_peers_and_channels(State, order))

\* a reestablish_channel task of a running Peer ends, for a channel that was
\* open before it was disconnected
ReestablishChannel ==
    \E p \in RunningPeers :
       \E c \in peer_objs[p].reestablishing :
          /\ chan[c].state = "DISCONNECTED"
          /\ chan[c].short_channel_id # None
          /\ Commit("reestablish_channel", reestablish_channel(State, p, c))

\* a wallet with one channel whose funding tx is mined and buried
InitOneMinedChan ==
    /\ InitStore({"c1"}, OpeningChanObjs)
    /\ InitChans({"c1"}, OpeningChanObjs, MinedTx(MaxConf, 100, 0))

InitState == InitPeersConnected /\ InitOneMinedChan /\ InitPay

NextState ==
    \/ OnNetworkUpdate
    \/ MarkOpen
    \/ PeerClosed
    \/ AddPeer
    \/ OnChannelClosed
    \/ ReestablishPeersAndChannels
    \/ ReestablishChannel

SpecState == InitState /\ [][NextState]_vars

\* the state changes that go forward: OPENING -> OPEN -> CLOSED, a live channel
\* may become DISCONNECTED, and a DISCONNECTED one may return to OPEN or be closed
ForwardStateChanges ==
    { <<"OPENING", "OPEN">>, <<"OPENING", "CLOSED">>, <<"OPEN", "CLOSED">>,
      <<"OPENING", "DISCONNECTED">>, <<"OPEN", "DISCONNECTED">>,
      <<"DISCONNECTED", "OPEN">>, <<"DISCONNECTED", "CLOSED">> }

\* C11: over any sequence of on_network_update ticks, on_channel_closed,
\* peer_closed and reestablishment, a channel's state only changes forward along
\* OPENING -> OPEN -> CLOSED (DISCONNECTED may return to OPEN); a channel that
\* has reached CLOSED never leaves CLOSED.
C11_ChannelStateMonotonic ==
    [][\A c \in ChanIds :
          chan'[c].state # chan[c].state
             => <<chan[c].state, chan'[c].state>> \in ForwardStateChanges]_vars

----------------------------------------------------------------------------
(* Specification of the lifecycle tick over two channels: HTLCs arrive, peers *)
(* connect, disconnect and reestablish channels                               *)

\* Channel.receive_htlc: the remote offered an HTLC that is in both latest commitments
receive_htlc(st, c, amount_msat, payment_hash, cltv_expiry, released) ==
    [st EXCEPT !.chan[c].htlcs = @ \cup
        { UpdateAddHtlc(Cardinality(@), HTLCOwner_REMOTE, amount_msat, payment_hash,
                        cltv_expiry, released,
                        { <<HTLCOwner_LOCAL, st.chan[c].local_latest_ctn>>,
                          <<HTLCOwner_REMOTE, st.chan[c].local_latest_ctn>> }) }]

\* the HTLCs the remote of channel c1 offers: 600_000 or 400_000 sat, expiring
\* just inside or outside the deadline, the preimage released or not
ReceiveHtlc ==
    \E amount_msat \in {600000000, 400000000}, released \in BOOLEAN,
       cltv_expiry \in { local_height + NBLOCK_DEADLINE_BEFORE_EXPIRY_FOR_RECEIVED_HTLCS - 1,
                         local_height + NBLOCK_DEADLINE_BEFORE_EXPIRY_FOR_RECEIVED_HTLCS + 1 } :
       /\ "c1" \in channels
       /\ chan["c1"].state = "OPEN"
       /\ ~is_closed(chan["c1"])
       /\ Cardinality(chan["c1"].htlcs) < MaxHtlcs
       /\ Commit("receive_htlc", receive_htlc(State, "c1", amount_msat, <<0>>, cltv_expiry, released))

\* a tick the watcher triggers, with a network that accepts the transactions
WatcherTick == NetworkCallback({"verified", "network_updated"}, {TRUE}, {TRUE})

\* a wallet just started: its two channels, open when it shut down, are loaded
\* from storage as DISCONNECTED and no peer is connected yet
LoadedChanObjs == [c \in ChanIds |-> [OpenChanObjs[c] EXCEPT !.state = "DISCONNECTED"]]

InitLoadedChans ==
    /\ InitStore(ChanIds, LoadedChanObjs)
    /\ InitChans(ChanIds, LoadedChanObjs, MinedTx(MaxConf, 100, 0))

InitTick == InitPeers /\ InitLoadedChans /\ InitPay

NextTick ==
    \/ WatcherTick
    \/ ReceiveHtlc
    \/ InboundConnection
    \/ PeerClosed
    \/ ReestablishPeersAndChannels
    \/ ReestablishChannel

SpecTick == InitTick /\ [][NextTick]_vars

\* channel c holds a received HTLC whose preimage was released, whose
\* cltv_expiry is local_height + DR - 1 and whose amount is 600_000 sat
HoldsExpiringHtlc(c) ==
    \E h \in chan[c].htlcs :
       /\ h.sender = HTLCOwner_REMOTE
       /\ <<HTLCOwner_LOCAL, chan[c].local_latest_ctn>> \in h.in_ctx
       /\ h.preimage_released
       /\ h.cltv_expiry = local_height + NBLOCK_DEADLINE_BEFORE_EXPIRY_FOR_RECEIVED_HTLCS - 1
       /\ h.amount_msat = 600000 * 1000

\* the calls the driver made on the Peer of channel c
PeerCalls(evts, c) ==
    { e \in evts : e.name \in {"send_funding_locked", "bitcoin_fee_update", "on_network_update"}
                   /\ e.chan = c }

\* C12: if a non-closed channel holds a received HTLC whose preimage was
\* released, whose cltv_expiry is local_height + DR - 1 and whose amount is
\* 600_000 sat, the next on_network_update('verified') tick marks the channel
\* force-closed, persists it, broadcasts its commitment tx and makes no further
\* lifecycle step on the channel.
C12_ExpiringHtlcForceClose ==
    [][\A c \in channels :
          ( /\ ret'.op = "on_network_update"
            /\ ~is_closed(chan[c])
            /\ HoldsExpiringHtlc(c) )
          => /\ chan'[c].force_closed
             /\ serialize(c, chan'[c]) \in lnwallet'[Me].storage.channels
             /\ Broadcast(c) \in events'
             /\ chan'[c].short_channel_id = chan[c].short_channel_id
             /\ PeerCalls(events', c) = PeerCalls(events, c)]_vars

\* the lifecycle steps of a watcher tick applied to channel c alone
StepsOf(c) == on_network_update_chan(State, "verified", c, TRUE)

\* C20: in one on_network_update tick, every non-closed channel of the snapshot
\* has its lifecycle steps applied, whatever the condition of the other channels
\* of the snapshot: the channel ends as its own steps leave it, and the calls
\* and broadcasts of its steps are made.
C20_TickCoversEveryChannel ==
    [][\A c \in channels :
          ( /\ ret'.op = "on_network_update"
            /\ ~is_closed(chan[c])
            /\ StepsOf(c).exc = "" )
          => /\ chan'[c] = StepsOf(c).chan[c]
             /\ StepsOf(c).events \subseteq events']_vars

----------------------------------------------------------------------------
(* Specification of the expiring-HTLC predicate: it is evaluated on a channel *)
(* that holds up to two HTLCs                                                *)

\* the height of the chain when the predicate is evaluated
ExpiryHeight ==
    2 * (NBLOCK_DEADLINE_BEFORE_EXPIRY_FOR_RECEIVED_HTLCS
         + NBLOCK_DEADLINE_AFTER_EXPIRY_FOR_OFFERED_HTLCS)

\* amounts in msat: 250_000 sat and a fraction, 300_000 sat, 500_000 sat
ExpiryAmounts == {250000999, 300000000, 500000000}

\* the remote dust limits: with the second, two HTLCs are worth closing over
\* only above 600_000 sat
DustLimits == {546, 30000}

\* the commitments an HTLC can be in: one or all of the inspected ones (the
\* latest local, the oldest unrevoked and the latest remote), or an old one
CtxSets ==
    { {<<HTLCOwner_LOCAL, 1>>},
      {<<HTLCOwner_REMOTE, 0>>},
      {<<HTLCOwner_LOCAL, 1>>, <<HTLCOwner_REMOTE, 0>>, <<HTLCOwner_REMOTE, 1>>},
      {<<HTLCOwner_LOCAL, 0>>} }

\* no HTLC with this id, or one received or offered HTLC, about to expire or not
HtlcChoices(htlc_id) ==
    { {} }
    \cup { { UpdateAddHtlc(htlc_id, HTLCOwner_REMOTE, amount_msat, <<0>>,
                           ExpiryHeight + NBLOCK_DEADLINE_BEFORE_EXPIRY_FOR_RECEIVED_HTLCS + d,
                           released, ctxs) } :
              amount_msat \in ExpiryAmounts, d \in {0, 1}, released \in BOOLEAN,
              ctxs \in CtxSets }
    \cup { { UpdateAddHtlc(htlc_id, HTLCOwner_LOCAL, amount_msat, <<0>>,
                           ExpiryHeight - NBLOCK_DEADLINE_AFTER_EXPIRY_FOR_OFFERED_HTLCS + d,
                           FALSE, ctxs) } :
              amount_msat \in ExpiryAmounts, d \in {0, 1}, ctxs \in CtxSets }

\* the open channel c1 with the HTLCs hs and a remote dust limit
ExpiryChanObjs(hs, dust_limit_sat) ==
    [OpenChanObjs EXCEPT !["c1"].htlcs = hs,
                         !["c1"].remote_dust_limit_sat = dust_limit_sat,
                         !["c1"].local_latest_ctn = 1]

InitExpiry ==
    \E h0 \in HtlcChoices(0), h1 \in HtlcChoices(1), dust_limit_sat \in DustLimits :
       /\ InitPeersConnected
       /\ InitStore({"c1"}, ExpiryChanObjs(h0 \cup h1, dust_limit_sat))
       /\ channels = {"c1"}
       /\ chan = ExpiryChanObjs(h0 \cup h1, dust_limit_sat)
       /\ lnwatcher = [c \in ChanIds |-> MinedTx(MaxConf, 100, 0)]
       /\ local_height = ExpiryHeight
       /\ InitPay

\* a call of should_channel_be_closed_due_to_expiring_htlcs
ShouldChannelBeClosed ==
    \E c \in channels :
       Commit("should_channel_be_closed_due_to_expiring_htlcs",
              [State EXCEPT !.args = <<c>>,
                            !.exc = IF should_channel_be_closed_due_to_expiring_htlcs(State, c)
                                    THEN "True" ELSE "False"])

SpecExpiry == InitExpiry /\ [][ShouldChannelBeClosed]_vars

\* the commitments the predicate inspects
InspectedCtxs(c) ==
    { <<HTLCOwner_LOCAL, chan[c].local_latest_ctn>>,
      <<HTLCOwner_REMOTE, chan[c].local_oldest_unrevoked_ctn>>,
      <<HTLCOwner_REMOTE, chan[c].local_latest_ctn>> }

\* the distinct HTLCs of an inspected commitment that are received with the
\* preimage released and cltv_expiry - DR <= local_height, or offered with
\* cltv_expiry + DO <= local_height
ExpiringHtlcs(c) ==
    { h \in chan[c].htlcs :
         /\ h.in_ctx \cap InspectedCtxs(c) # {}
         /\ \/ /\ h.sender = HTLCOwner_REMOTE
               /\ h.preimage_released
               /\ h.cltv_expiry - NBLOCK_DEADLINE_BEFORE_EXPIRY_FOR_RECEIVED_HTLCS
                     <= local_height
            \/ /\ h.sender = HTLCOwner_LOCAL
               /\ h.cltv_expiry + NBLOCK_DEADLINE_AFTER_EXPIRY_FOR_OFFERED_HTLCS
                     <= local_height }

\* C23: should_channel_be_closed_due_to_expiring_htlcs returns true if and only
\* if the summed sat value (amount_msat // 1000) of the distinct expiring HTLCs
\* is strictly greater than max(num_htlcs * 10 * remote dust limit, 500_000);
\* an HTLC in several inspected commitments is counted once, and a total equal
\* to the threshold does not close.
C23_ExpiringHtlcPredicate ==
    ret.op = "should_channel_be_closed_due_to_expiring_htlcs"
    => LET c == ret.args[1]
           hs == ExpiringHtlcs(c)
       IN (ret.result = "True")
             <=> SumSat(hs) > Max(Cardinality(hs) * 10 * chan[c].remote_dust_limit_sat, 500000)

\* the predicate was false for one expiring HTLC of exactly 500_000 sat that is
\* in the three inspected commitments
C23_Witness ==
    /\ ret = Call("should_channel_be_closed_due_to_expiring_htlcs", <<"c1">>, "False")
    /\ Cardinality(ExpiringHtlcs("c1")) = 1
    /\ SumSat(ExpiringHtlcs("c1")) = 500000
    /\ \E h \in ExpiringHtlcs("c1") : Cardinality(h.in_ctx) = 3

----------------------------------------------------------------------------
(* Specification of the on-chain reaction: one close of a channel, or one    *)
(* sweep, at any height of the chain                                         *)

\* the tx gen_tx() of a sweep builds
SweepTx(name, cltv_expiry, csv_delay) == <<name, cltv_expiry, csv_delay>>

\* the sweeps called name: without lock, with a CLTV lock, a CSV lock or both;
\* gen_tx gives a tx, or None when the output is below dust
SweepInfos(name) ==
    { SweepInfo(name, cltv_expiry, csv_delay,
                IF dust THEN None ELSE Some(SweepTx(name, cltv_expiry, csv_delay))) :
         cltv_expiry \in {0, 1, 2}, csv_delay \in {0, 2}, dust \in BOOLEAN }

\* the sweeps of an HTLC tx that chan.sweep_htlc can return
HtlcSweepInfos ==
    { SweepInfo("second_stage", 0, csv_delay, Some(SweepTx("second_stage", 0, csv_delay))) :
         csv_delay \in {0, 2} }

\* an output of the closing tx that nobody spent
UnspentItems ==
    { SweepItem("closing_tx:0", sweep_info, prev_conf, None, None, FALSE, 0) :
         sweep_info \in SweepInfos("our_ctx_to_local"), prev_conf \in {1, 2} }

\* an output of the closing tx spent by the tx "htlc_tx": an HTLC tx the channel
\* can sweep further or not, whose output 0 is spent or not
SpentItems ==
    { SweepItem("closing_tx:1", SweepInfo("our_ctx_htlc", 0, 0, Some(SweepTx("our_ctx_htlc", 0, 0))),
                1, Some("htlc_tx"), e_htlc_tx, spender2, 1) :
         e_htlc_tx \in {None} \cup { Some(i) : i \in HtlcSweepInfos }, spender2 \in BOOLEAN }

\* chan.sweep_ctx(closing_tx): one or two outputs, in either order
SweepDicts ==
    { <<a>> : a \in UnspentItems \cup SpentItems }
    \cup { <<a, b>> : a \in UnspentItems, b \in SpentItems }
    \cup { <<b, a>> : a \in UnspentItems, b \in SpentItems }

\* no handler labelled, broadcast or scheduled anything yet
NoSweepYet == events = {} /\ ret.op \in {"init", "new_block"}

\* a call of try_redeem
TryRedeem ==
    \E sweep_info \in SweepInfos("our_ctx_to_local"), prev_conf \in 0 .. MaxConf,
       bcast_ok \in BOOLEAN :
       /\ NoSweepYet
       /\ Commit("try_redeem",
                 try_redeem([State EXCEPT !.args = <<sweep_info, prev_conf, bcast_ok>>],
                            "closing_tx:0", prev_conf, sweep_info, bcast_ok))

\* LNWatcher triggers channel_closed with the sweeps of the closing tx
ChannelClosed ==
    \E funding_outpoint \in { Outpoint(c) : c \in ChanIds } \cup {OtherOutpoint},
       items \in SweepDicts, bcast_ok \in BOOLEAN :
       /\ NoSweepYet
       /\ Commit("on_channel_closed",
                 on_channel_closed([State EXCEPT !.args = <<funding_outpoint, items>>],
                                   funding_outpoint, FundingInfo, ClosingInfo, items, bcast_ok))

\* the chain grows by a block
NewBlock ==
    /\ local_height < MaxConf
    /\ local_height' = local_height + 1
    /\ ret' = Ret("new_block", "")
    /\ UNCHANGED <<lnwallet, events, peerVars, channels, chan, lnwatcher, payVars>>

\* c1 is open and has its short channel id, c2 is opening and has none
SweepChanObjs == [c \in ChanIds |-> IF c = "c1" THEN OpenChanObjs[c] ELSE OpeningChanObjs[c]]

InitSweep ==
    /\ InitPeersConnected
    /\ InitStore(ChanIds, SweepChanObjs)
    /\ InitChans(ChanIds, SweepChanObjs, MinedTx(MaxConf, 100, 0))
    /\ InitPay

NextSweep == TryRedeem \/ ChannelClosed \/ NewBlock

SpecSweep == InitSweep /\ [][NextSweep]_vars

\* the call of add_future_tx for a tx
FutureTxs(tx) == { e \in events : e.name = "add_future_tx" /\ e.tx = tx }

\* C24: try_redeem never broadcasts a sweep tx while its CLTV lock
\* (cltv_expiry - local_height > 0) or its CSV lock (csv_delay - confirmations
\* of the previous tx > 0) is unmet: it registers the sweep as a future tx
\* instead; a sweep with every lock met, or without locks, is broadcast.
C24_TimelockSafety ==
    (ret.op = "try_redeem" /\ ret.args[1].gen_tx # None)
    => LET sweep_info == ret.args[1]
           tx == TheVal(sweep_info.gen_tx)
           unmet == \/ sweep_info.cltv_expiry - local_height > 0
                    \/ sweep_info.csv_delay - ret.args[2] > 0
       IN IF unmet
          THEN Broadcast(tx) \notin events /\ FutureTxs(tx) # {}
          ELSE FutureTxs(tx) = {} /\ (ret.args[3] => Broadcast(tx) \in events)

\* a sweep with a met CLTV lock and an unmet CSV lock was deferred
C24_Witness ==
    /\ ret.op = "try_redeem"
    /\ ret.args[1].gen_tx # None
    /\ ret.args[1].cltv_expiry > 0
    /\ ret.args[1].cltv_expiry - local_height <= 0
    /\ ret.args[1].csv_delay - ret.args[2] > 0
    /\ FutureTxs(TheVal(ret.args[1].gen_tx)) # {}
    /\ Broadcast(TheVal(ret.args[1].gen_tx)) \notin events

\* C25: whenever try_redeem defers a sweep, the wait it passes to add_future_tx
\* is strictly positive and is the number of blocks missing on an unmet lock,
\* for every combination of CLTV and CSV locks.
C25_DeferredWaitIsPositive ==
    ret.op = "try_redeem"
    => \A e \in events :
          e.name = "add_future_tx"
          => /\ e.remaining > 0
             /\ e.remaining \in { ret.args[1].cltv_expiry - local_height,
                                  ret.args[1].csv_delay - ret.args[2] }

\* C26: when gen_tx yields no transaction, try_redeem drops the sweep without
\* labelling, broadcasting or scheduling anything and without raising, and
\* on_channel_closed goes on to the remaining outputs.
C26_DustSweepDropped ==
    (ret.op = "try_redeem" /\ ret.args[1].gen_tx = None)
    => ret.result = "" /\ events = {}

\* try_redeem(spender:0, e_htlc_tx) was called: it labels the tx of e_htlc_tx
Redeemed(sweep_info) ==
    [name |-> "set_label", tx |-> TheVal(sweep_info.gen_tx), label |-> sweep_info.name]
       \in events

\* the items of a sweep dict
Items(items) == { items[i] : i \in DOMAIN items }

\* C27: for a sweep output that already has a spender, on_channel_closed calls
\* try_redeem(spender_txid:0, e_htlc_tx) if and only if the channel recognises
\* the spender as a further-sweepable HTLC tx and output 0 of that tx has no
\* recorded spender; otherwise nothing is redeemed for that output.
C27_SecondStageSweeps ==
    ( /\ ret.op = "on_channel_closed"
      /\ ret.result = ""
      /\ channel_by_txo(State, ret.args[1]) # {} )
    => \A it \in Items(ret.args[2]) :
          it.spender # None
          => /\ \A sweep_info \in HtlcSweepInfos :
                   Redeemed(sweep_info) <=> (it.e_htlc_tx = Some(sweep_info) /\ ~it.spender2)
             /\ ~Redeemed(it.sweep_info)

\* C28: after on_channel_closed for the funding outpoint of a known channel, the
\* channel's timestamps hold the closing txid, height and timestamp, its
\* funding output is marked spent, its state is CLOSED and its short channel id,
\* if any, is removed from the channel DB, also when a sweep fails afterwards;
\* for an outpoint of no channel nothing changes.
C28_CloseEffects ==
    [][ret'.op = "on_channel_closed"
       => IF channel_by_txo(State, ret'.args[1]) = {}
          THEN UNCHANGED <<lnwallet, events, peerVars, chanVars, payVars>> /\ ret'.result = ""
          ELSE \E c \in channel_by_txo(State, ret'.args[1]) :
                  /\ lnwallet'[Me].channel_timestamps[c] = Timestamps(FundingInfo, Some(ClosingInfo))
                  /\ lnwallet'[Me].storage.lightning_channel_timestamps[c]
                        = Timestamps(FundingInfo, Some(ClosingInfo))
                  /\ chan'[c].funding_txo_spent = Some(TRUE)
                  /\ chan'[c].state = "CLOSED"
                  /\ chan[c].short_channel_id # None
                        => [name |-> "channel_db.remove_channel",
                            short_channel_id |-> TheVal(chan[c].short_channel_id)] \in events'
                  /\ \A d \in ChanIds \ {c} : chan'[d] = chan[d]]_vars

\* the close of c1 was recorded although its first sweep raised
C28_Witness ==
    /\ ret.op = "on_channel_closed"
    /\ ret.args[1] = Outpoint("c1")
    /\ ret.result # ""
    /\ chan["c1"].state = "CLOSED"
    /\ lnwallet[Me].channel_timestamps["c1"] = Timestamps(FundingInfo, Some(ClosingInfo))
    /\ \E e \in events : e.name = "channel_db.remove_channel"

----------------------------------------------------------------------------
(* Specification of the funding output as LNWatcher reports it: unspent *)
(* (channel_open) or spent (channel_closed), in any order               *)

\* LNWatcher triggers channel_open for a funding outpoint it finds unspent
OnChannelOpen ==
    \E funding_outpoint \in { Outpoint(c) : c \in ChanIds } \cup {OtherOutpoint} :
       Commit("on_channel_open",
              on_channel_open([State EXCEPT !.args = <<funding_outpoint>>],
                              funding_outpoint, FundingInfo))

NextReopen ==
    \/ OnChannelOpen
    \/ OnChannelClosed

SpecReopen == InitSweep /\ [][NextReopen]_vars

\* the closing txid, height and timestamp kept for channel c
ClosingFields(timestamps, c) ==
    IF timestamps[c] = NoTimestamps THEN <<None, None, None>>
    ELSE <<timestamps[c][4], timestamps[c][5], timestamps[c][6]>>

\* C39: once on_channel_closed has recorded the closing txid, height and
\* timestamp of a channel and marked its funding output spent, no later
\* on_channel_open for the same funding outpoint empties the closing fields or
\* marks the funding output unspent again.
C39_ClosingMetadataKept ==
    [][\A c \in channels :
          ( /\ ret'.op = "on_channel_open"
            /\ ret'.args[1] = Outpoint(c)
            /\ ClosingFields(lnwallet[Me].channel_timestamps, c) # <<None, None, None>>
            /\ chan[c].funding_txo_spent = Some(TRUE) )
          => /\ ClosingFields(lnwallet'[Me].channel_timestamps, c)
                   = ClosingFields(lnwallet[Me].channel_timestamps, c)
             /\ ClosingFields(lnwallet'[Me].storage.lightning_channel_timestamps, c)
                   = ClosingFields(lnwallet[Me].storage.lightning_channel_timestamps, c)
             /\ chan'[c].funding_txo_spent = Some(TRUE)]_vars

----------------------------------------------------------------------------
(* Specification of a force close whose broadcast may fail: one channel, *)
(* watcher ticks with a network that accepts transactions again          *)

\* LNWatcher sees the commitment tx in the mempool or in a block once it was
\* broadcast: its height is no longer TX_HEIGHT_LOCAL
CloseTxSeen ==
    \E c \in channels :
       /\ Broadcast(c) \in events
       /\ lnwatcher[c].close_tx_local
       /\ lnwatcher' = [lnwatcher EXCEPT ![c].close_tx_local = FALSE]
       /\ ret' = Ret("lnwatcher", "")
       /\ UNCHANGED <<lnwallet, events, peerVars, channels, chan, local_height, payVars>>

InitClose == InitPeersConnected /\ InitOneMinedChan /\ InitPay

NextClose ==
    \/ WatcherTick
    \/ MarkOpen
    \/ PeerClosed
    \/ AddPeer
    \/ ForceCloseChannel
    \/ CloseTxSeen

SpecClose == InitClose /\ [][NextClose]_vars

\* C21: if the broadcast of force_close_channel failed (the channel is
\* force_closed, its state is not CLOSED, the close tx is local-only), a later
\* on_network_update tick rebroadcasts the close tx.
C21_ForceCloseRebroadcast ==
    [][\A c \in channels :
          ( /\ ret'.op = "on_network_update"
            /\ chan[c].force_closed
            /\ chan[c].state # "CLOSED"
            /\ lnwatcher[c].close_tx_local
            /\ Broadcast(c) \notin events )
          => Broadcast(c) \in events']_vars

----------------------------------------------------------------------------
(* Specification of peer initialization: connections are made, the remotes *)
(* answer with their init message, main loops end                          *)

\* no peers yet, one channel with node n1
InitInit == InitPeers /\ InitOneMinedChan /\ InitPay

NextInit ==
    \/ AddPeer
    \/ InboundConnection
    \/ ProcessInit
    \/ PeerClosed

SpecInit == InitInit /\ [][NextInit]_vars

\* C14: when a peer's init message advertises empty feature bits, the connection
\* is terminated and the peer's pubkey does not appear in the peers map: right
\* after the init message was processed the pubkey has no entry, and the Peer is
\* never again the entry of its pubkey.
C14_NoFeaturesPeerOutOfMap ==
    \A p \in 1..Len(peer_objs) :
       peer_objs[p].their_features = Some({})
       => /\ ~peer_objs[p].running
          /\ ~peer_objs[p].initialized
          /\ peers[peer_objs[p].pubkey] # p
          /\ (ret.op = "process_init" /\ ret.args[1] = p)
                => peers[peer_objs[p].pubkey] = NoPeer

\* an outbound Peer has just received an init message without features
C14_Witness ==
    /\ ret.op = "process_init"
    /\ ret.result = ""
    /\ ret.args[2] = {}
    /\ peer_objs[ret.args[1]].transport = "LNTransport"
    /\ peer_objs[ret.args[1]].their_features = Some({})

----------------------------------------------------------------------------
(* Specification of the Peer Manager loop: time passes, the loop looks for a *)
(* peer to dial, main loops of Peers end                                     *)

\* the clock runs for MaxSpan retry intervals
MaxSpan == 2

\* the time at which the worker starts
StartTime == 2 * PEER_RETRY_INTERVAL

\* the time that passes between two steps
TimeSteps == { PEER_RETRY_INTERVAL \div 2, PEER_RETRY_INTERVAL }

\* the addresses the channel db and the fallback list hold
KnownAddrs == { LNPeerAddr("h1", 9735, "n1"), LNPeerAddr("h2", 9735, "n2") }

\* the lists of at most one known address, and the optional known addresses
KnownLists == { <<>> } \cup { <<a>> : a \in KnownAddrs }

KnownChoices == { None } \cup { Some(a) : a \in KnownAddrs }

\* asyncio.sleep, or any other wait
AdvanceTime ==
    \E d \in TimeSteps :
       /\ now + d <= StartTime + MaxSpan * PEER_RETRY_INTERVAL
       /\ Commit("sleep", [State EXCEPT !.now = @ + d])

\* an iteration of the Peer Manager loop
MainLoop ==
    \E recent_peers \in KnownLists, graph_peers \in KnownLists, fallback \in KnownChoices :
       /\ Len(peer_objs) < MaxPeers
       /\ Commit("main_loop", main_loop(State, recent_peers, graph_peers, fallback))

\* the worker starts at StartTime without peers; one channel with node n1
InitManager ==
    /\ peers = [n \in NodeIds |-> NoPeer]
    /\ peer_objs = <<>>
    /\ last_tried_peer = [a \in PeerAddrs |-> None]
    /\ now = StartTime
    /\ InitOneMinedChan
    /\ InitPay

NextManager ==
    \/ AdvanceTime
    \/ MainLoop
    \/ PeerClosed

SpecManager == InitManager /\ [][NextManager]_vars

\* the step is an iteration of the Peer Manager loop that dials address a
Dials(a) ==
    /\ ret'.op = "main_loop"
    /\ Len(peer_objs') = Len(peer_objs) + 1
    /\ peer_objs'[Len(peer_objs')].pubkey = a.pubkey
    /\ last_tried_peer'[a] = Some(now')

\* C18: the Peer Manager loop dials a candidate address only if strictly more
\* than PEER_RETRY_INTERVAL (600 s) has passed since the last connection attempt
\* to that address: an attempt exactly 600 s after the previous one is not made.
C18_ReconnectThrottle ==
    [][\A a \in PeerAddrs :
          (Dials(a) /\ last_tried_peer[a] # None)
          => now' - TheVal(last_tried_peer[a]) > PEER_RETRY_INTERVAL]_vars

----------------------------------------------------------------------------
(* Specification of the choice of the next peer to try *)

\* the lists of known addresses without repetition
KnownSeqs ==
    KnownLists \cup { x \in { <<a, b>> : a \in KnownAddrs, b \in KnownAddrs } : x[1] # x[2] }

\* a call of _get_next_peers_to_try
GetNextPeersToTry ==
    \E recent_peers \in KnownSeqs, graph_peers \in KnownSeqs, fallback \in KnownChoices :
       LET r == _get_next_peers_to_try(State, recent_peers, graph_peers, fallback)
       IN Commit("_get_next_peers_to_try",
                 [r.st EXCEPT !.args = <<recent_peers, graph_peers, fallback, r.peers>>])

\* the call is looked at in the state the loop and the clock have reached: a
\* behaviour ends with it
NotSelected == ret.op # "_get_next_peers_to_try"

NextSelect ==
    \/ NotSelected /\ GetNextPeersToTry
    \/ NotSelected /\ AdvanceTime
    \/ NotSelected /\ MainLoop
    \/ NotSelected /\ PeerClosed

SpecSelect == InitManager /\ [][NextSelect]_vars

\* the address is in the last-tried map and younger than PEER_RETRY_INTERVAL
RecentlyTried(a) ==
    /\ last_tried_peer[a] # None
    /\ now - TheVal(last_tried_peer[a]) < PEER_RETRY_INTERVAL

\* the positions of a list whose address is neither connected nor recently tried
Candidates(addrs) ==
    { i \in DOMAIN addrs : peers[addrs[i].pubkey] = NoPeer /\ ~RecentlyTried(addrs[i]) }

\* the smallest number of a non-empty set
Min(S) == CHOOSE i \in S : \A j \in S : i <= j

\* C32: after pruning the last-tried entries whose age is >= PEER_RETRY_INTERVAL,
\* _get_next_peers_to_try returns the first recent peer that is neither
\* connected nor in the last-tried map if there is one; otherwise the first
\* sampled unconnected graph node whose address is not in the map; otherwise
\* one entry of the fallback list of the net (nothing on a net without one).
C32_CandidateOrder ==
    [][ret'.op = "_get_next_peers_to_try"
       => LET recent_peers == ret'.args[1]
              graph_peers == ret'.args[2]
              fallback == ret'.args[3]
          IN /\ \A a \in PeerAddrs :
                   last_tried_peer'[a] = IF RecentlyTried(a) THEN last_tried_peer[a] ELSE None
             /\ ret'.args[4] =
                   IF Candidates(recent_peers) # {}
                   THEN <<recent_peers[Min(Candidates(recent_peers))]>>
                   ELSE IF Candidates(graph_peers) # {}
                   THEN <<graph_peers[Min(Candidates(graph_peers))]>>
                   ELSE IF fallback # None THEN <<TheVal(fallback)>>
                   ELSE <<>>]_vars

\* the second recent peer was returned: the first one is connected; and an old
\* entry of the last-tried map was pruned
C32_Witness ==
    /\ ret.op = "_get_next_peers_to_try"
    /\ Len(ret.args[1]) = 2
    /\ peers[ret.args[1][1].pubkey] # NoPeer
    /\ ret.args[4] = <<ret.args[1][2]>>
    /\ last_tried_peer[ret.args[1][1]] = None

----------------------------------------------------------------------------
(* Specification of the watchtower sync of a channel *)

\* commitment numbers range over 0..MaxCtn
MaxCtn == 3

\* chan.create_sweeptxs(ctn): the penalty txs for the revoked commitment ctn
create_sweeptxs(ctn) == << <<"penalty", ctn, 0>>, <<"penalty", ctn, 1>> >>

\* watchtower.add_sweep_tx(outpoint, ctn, prevout, tx): what the watchtower stores
SweepTxStored(outpoint, ctn, tx) ==
    [name |-> "add_sweep_tx", outpoint |-> outpoint, ctn |-> ctn, tx |-> tx]

\* the commitment numbers the watchtower holds for an outpoint
StoredCtns(evs, outpoint) ==
    { e.ctn : e \in { x \in evs : x.name = "add_sweep_tx" /\ x.outpoint = outpoint } }

\* watchtower.get_ctn(outpoint, addr): the highest commitment number stored for
\* the outpoint, -1 when there is none
get_ctn(evs, outpoint) ==
    IF StoredCtns(evs, outpoint) = {} THEN -1
    ELSE CHOOSE n \in StoredCtns(evs, outpoint) : \A m \in StoredCtns(evs, outpoint) : m <= n

\* a range that includes its end
in_range_inclusive(ctn, stop) == ctn <= stop

\* range(start, stop) has the value ctn
in_range(ctn, stop) == ctn < stop

\* the loop `for ctn in range(watchtower_ctn + 1, current_ctn)` from ctn on; the
\* calls of add_sweep_tx made so far are appended to args[4]
RECURSIVE sync_loop(_, _, _, _)
sync_loop(st, outpoint, ctn, current_ctn) ==
    IF ~in_range(ctn, current_ctn) THEN st
    ELSE LET sweeptxs == create_sweeptxs(ctn)
             pushed == [i \in DOMAIN sweeptxs |-> SweepTxStored(outpoint, ctn, sweeptxs[i])]
         IN sync_loop([st EXCEPT !.events = @ \cup { pushed[i] : i \in DOMAIN pushed },
                                 !.args[4] = @ \o pushed],
                      outpoint, ctn + 1, current_ctn)

\* LNWallet.sync_channel_with_watchtower; current_ctn: chan.get_oldest_unrevoked_ctn(REMOTE)
sync_channel_with_watchtower(st, c, current_ctn) ==
    LET outpoint == Outpoint(c)
        watchtower_ctn == get_ctn(st.events, outpoint)
    IN sync_loop([st EXCEPT !.args = <<c, watchtower_ctn, current_ctn, <<>> >>],
                 outpoint, watchtower_ctn + 1, current_ctn)

\* one pass of a watchtower sync loop for a channel
SyncChannelWithWatchtower ==
    \E c \in channels, current_ctn \in 0 .. MaxCtn :
       Commit("sync_channel_with_watchtower",
              sync_channel_with_watchtower(State, c, current_ctn))

SpecWatchtower == InitSweep /\ [][SyncChannelWithWatchtower]_vars

\* C33: one sync_channel_with_watchtower pass pushes the penalty sweep txs for
\* exactly the commitment numbers wt_ctn+1 .. current_ctn-1, in increasing
\* order, and nothing for a ctn <= wt_ctn or >= current_ctn; when
\* wt_ctn + 1 >= current_ctn it pushes nothing.
C33_WatchtowerSyncRange ==
    [][ret'.op = "sync_channel_with_watchtower"
       => LET c == ret'.args[1]
              wt_ctn == ret'.args[2]
              current_ctn == ret'.args[3]
              pushes == ret'.args[4]
              ctns == (wt_ctn + 1) .. (current_ctn - 1)
          IN /\ wt_ctn = get_ctn(events, Outpoint(c))
             /\ { pushes[i].ctn : i \in DOMAIN pushes } = ctns
             /\ \A i \in DOMAIN pushes : \A j \in DOMAIN pushes :
                   i < j => pushes[i].ctn <= pushes[j].ctn
             /\ \A ctn \in ctns : \A k \in DOMAIN create_sweeptxs(ctn) :
                   Cardinality({ i \in DOMAIN pushes :
                                    pushes[i] = SweepTxStored(Outpoint(c), ctn,
                                                              create_sweeptxs(ctn)[k]) }) = 1
             /\ Len(pushes) = 2 * Cardinality(ctns)
             /\ events' = events \cup { pushes[i] : i \in DOMAIN pushes }
             /\ (wt_ctn + 1 >= current_ctn) => pushes = <<>>]_vars

\* a pass pushed the txs of two commitments to a watchtower that held some
C33_Witness ==
    /\ ret.op = "sync_channel_with_watchtower"
    /\ ret.args[2] >= 0
    /\ ret.args[3] = ret.args[2] + 3
    /\ Len(ret.args[4]) = 4

----------------------------------------------------------------------------
(* Specification of the long-lived loops: iterations that may raise *)

\* util.log_exceptions: logs the exception of the coroutine and raises it again
log_exceptions(exc) == exc

\* util.ignore_exceptions: swallows the exception of the coroutine, but not a
\* cancellation
ignore_exceptions(exc) == IF exc = "CancelledError" THEN exc ELSE ""

\* the exception that leaves the coroutine of a loop when its body raised exc:
\* main_loop is decorated with log_exceptions, the watchtower loops with
\* ignore_exceptions and log_exceptions, the reestablishment loop with nothing
loop_exception(loop, exc) ==
    CASE loop = "main_loop" -> log_exceptions(exc)
      [] loop = "reestablish_peers_and_channels" -> exc
      [] OTHER -> ignore_exceptions(log_exceptions(exc))

\* the coroutine of a loop ended; a child of main_taskgroup that ends with an
\* exception cancels the group, and with it every other task
task_ended(st, loop, exc) ==
    IF loop_exception(loop, exc) = "" THEN [st EXCEPT !.tasks[loop] = "done"]
    ELSE [st EXCEPT !.tasks = [t \in DOMAIN @ |-> IF t = loop THEN "done" ELSE "cancelled"]]

\* what an iteration of a loop does when nothing raises
loop_body(st, loop, recent_peers, graph_peers, fallback, order) ==
    CASE loop = "main_loop" -> main_loop(st, recent_peers, graph_peers, fallback)
      [] loop = "reestablish_peers_and_channels" -> reestablish_peers_and_channels(st, order)
      [] OTHER -> st

\* an iteration of a `while True:` loop whose first call raises exc ("": nothing
\* raises); only sync_with_remote_watchtower has a try block in its loop, for
\* ClientConnectorError
loop_iteration(st, loop, exc, recent_peers, graph_peers, fallback, order) ==
    IF exc = "" THEN loop_body(st, loop, recent_peers, graph_peers, fallback, order)
    ELSE IF loop = "sync_with_remote_watchtower" /\ exc = "ClientConnectorError" THEN st
    ELSE Raise(task_ended(st, loop, exc), exc)

\* what a call inside an iteration can raise
IterationExcs == {"", "Exception", "ClientConnectorError"}

\* an iteration of one of the loops that are still running
LoopIteration ==
    \E loop \in LoopNames, exc \in IterationExcs, recent_peers \in KnownLists,
       graph_peers \in KnownLists, fallback \in KnownChoices, order \in Orders(channels) :
       /\ tasks[loop] = "running"
       /\ Len(peer_objs) < MaxPeers
       /\ Commit(loop, loop_iteration(State, loop, exc, recent_peers, graph_peers,
                                      fallback, order))

NextLoops == LoopIteration \/ AdvanceTime \/ PeerClosed

SpecLoops == InitManager /\ [][NextLoops]_vars

\* C29: when an iteration of the Peer Manager loop, the reestablishment loop or
\* a watchtower sync loop raises an exception other than cancellation, the
\* exception is swallowed, the loop keeps running its later iterations and the
\* shared task group is not cancelled.
C29_LoopsSurviveFailures ==
    [][\A loop \in LoopNames :
          (ret'.op = loop /\ ret'.result # "" /\ tasks[loop] = "running")
          => /\ tasks'[loop] = "running"
             /\ tasks'["main_taskgroup"] = "running"]_vars

----------------------------------------------------------------------------
(* Specification of routing hints: invoices are created while channels open, *)
(* disconnect and close                                                      *)

\* the amounts invoices are created for: none, zero, one that only the
\* remote balance of c1 covers and one that no remote balance covers
HintAmounts == {None, Some(0), Some(100000), Some(200001)}

CalcRoutingHints ==
    \E amount_sat \in HintAmounts, order \in Orders(channels) :
       Commit("_calc_routing_hints_for_invoice", calc_hints_call(State, amount_sat, order))

\* a wallet with channel c1 open and channel c2 opening, its funding tx mined
HintChanObjs == [c \in ChanIds |-> IF c = "c1" THEN OpenChanObjs[c] ELSE OpeningChanObjs[c]]

InitHints ==
    /\ InitPeersConnected
    /\ InitStore(ChanIds, HintChanObjs)
    /\ InitChans(ChanIds, HintChanObjs, MinedTx(MaxConf, 100, 0))
    /\ InitPay

NextHints ==
    \/ CalcRoutingHints
    \/ WatcherTick
    \/ MarkOpen
    \/ PeerClosed
    \/ ForceCloseChannel

SpecHints == InitHints /\ [][NextHints]_vars

\* the hints of a list that are for channel c
HintsFor(routing_hints, c) ==
    { i \in 1..Len(routing_hints) :
         /\ routing_hints[i][1] = "r"
         /\ Len(routing_hints[i][2]) = 1
         /\ routing_hints[i][2][1][1] = chan[c].node_id
         /\ Some(routing_hints[i][2][1][2]) = chan[c].short_channel_id }

\* channel c is OPEN and its remote balance covers the amount, if one is given
HintExpected(c, amount_sat) ==
    /\ chan[c].state = "OPEN"
    /\ (amount_sat # None /\ TheVal(amount_sat) # 0)
          => chan[c].remote_balance_msat \div 1000 >= TheVal(amount_sat)

\* C13: _calc_routing_hints_for_invoice(amount) returns exactly one 'r' hint for
\* each channel whose state is OPEN and whose remote balance (msat // 1000) is
\* at least the amount, when one is given, and no hint for a channel in another
\* state or with insufficient remote balance.
C13_HintsOnlyForOpenChannels ==
    ret.op = "_calc_routing_hints_for_invoice"
    => /\ ret.result = ""
       /\ \A c \in channels :
             Cardinality(HintsFor(caller.hints, c))
                = IF HintExpected(c, ret.args[1]) THEN 1 ELSE 0
       /\ \A i \in 1..Len(caller.hints) : \E c \in channels : i \in HintsFor(caller.hints, c)

\* the scenario of two channels, one OPEN with 200_000 sat on the remote side and
\* one OPENING: the invoice for 100_000 sat gets the hint of the OPEN channel only
C13_Witness ==
    /\ ret = Call("_calc_routing_hints_for_invoice", <<Some(100000)>>, "")
    /\ chan["c1"].state = "OPEN"
    /\ chan["c2"].state = "OPENING"
    /\ caller.hints = << RoutingHint("n1", ShortChannelID(100, 0, 0), 1000, 1, 144) >>

----------------------------------------------------------------------------
(* Specification of route building *)

\* routing hints: each a sequence of <<node, scid, fee_base_msat, ppm, cltv_delta>>
hint_ok == << <<"n1", ShortChannelID(300, 0, 0), 1000, 1, 144>> >>
hint_fee == << <<"n2", ShortChannelID(301, 0, 0), 2000000, 1, 144>> >>
hint_fixed == << <<"n2", ShortChannelID(302, 0, 0), 1000, 1, 9000>> >>
hint_spoiled == << <<"n1", ShortChannelID(303, 0, 0), 1000, 1, 144>> >>
hint_empty == << >>
hint_long ==
    [i \in 1..(NUM_MAX_EDGES_IN_PAYMENT_PATH + 1) |->
        <<"n1", ShortChannelID(304, 0, 0), 0, 0, 1>>]
hint_unreachable == << <<"n9", ShortChannelID(305, 0, 0), 1000, 1, 144>> >>
hint_two == << <<"n1", ShortChannelID(306, 0, 0), 1000, 1, 144>>,
               <<"n6", ShortChannelID(307, 0, 0), 1000, 1, 144>> >>

\* the 'r' tags of the invoices of a private payee
RTagLists ==
    { <<hint_ok>>, <<hint_fee>>, <<hint_fee, hint_ok>>, <<hint_spoiled, hint_fixed>>,
      <<hint_empty, hint_long, hint_unreachable>>, <<hint_two, hint_fee>>,
      <<hint_spoiled>> }

\* the decoded invoices handed to route building
RouteInvoices ==
    { LnAddr(<<0>>, amount, pubkey, << >>, 9, FALSE) :
         amount \in AmountSet, pubkey \in {"n1", "n3", "n4"} }
    \cup
    { LnAddr(<<0>>, Some(100000), "n5", r_tags, 9, FALSE) : r_tags \in RTagLists }
    \cup
    { LnAddr(<<0>>, None, "n5", <<hint_ok>>, 9, FALSE),
      LnAddr(<<0>>, Some(200000), "n1", <<hint_fee>>, 9, FALSE),
      LnAddr(<<0>>, Some(100000), "n3", << >>, 8600, FALSE),
      LnAddr(<<0>>, Some(100000), "n5", <<hint_ok>>, 8600, FALSE) }

\* the orders random.shuffle may put a list in
Shuffles(list) ==
    { [i \in 1..Len(list) |-> list[f[i]]] :
        f \in { g \in [1..Len(list) -> 1..Len(list)] :
                   \A i, j \in 1..Len(list) : i # j => g[i] # g[j] } }

\* a direct call of _create_route_from_invoice, as the test makes it: the caller
\* keeps the invoice, and the route when one is returned
create_route_call(st, addr, r_tags) ==
    LET r == _create_route_from_invoice(st, addr, r_tags)
    IN IF r.exc = ""
       THEN [st EXCEPT !.caller.addr = Some(addr), !.caller.route = r.route,
                       !.caller.route_addr = Some(addr)]
       ELSE [st EXCEPT !.caller.addr = Some(addr), !.exc = r.exc]

CreateRoute(invoices) ==
    \E addr \in invoices :
       \E r_tags \in Shuffles(addr.r_tags) :
          LET st == create_route_call(State, addr, r_tags)
          IN Commit("_create_route_from_invoice", st)

CreateRouteFromInvoice == CreateRoute(RouteInvoices)

InitRoute == InitPeersConnected /\ InitOpenChans /\ InitPay

NextRoute ==
    \/ CreateRouteFromInvoice
    \/ ForceCloseChannel

SpecRoute == InitRoute /\ [][NextRoute]_vars

\* the nodes a path to the payee of an invoice, or to the border node of one
\* of its hints, can have as its first hop
FirstHops(addr) ==
    LET targets == {addr.pubkey}
                     \cup { addr.r_tags[i][1][1] :
                              i \in { j \in 1..Len(addr.r_tags) : Len(addr.r_tags[j]) > 0 } }
    IN targets \cup { e.start : e \in { x \in PublicChannels : x.end \in targets } }

\* the channels a route for the invoice can start with
FirstChannels(addr) == { c \in channels : chan[c].node_id \in FirstHops(addr) }

\* C6: after force_close_channel(c) has run and its commitment tx was handed to
\* broadcast, _create_route_from_invoice for an invoice whose only path uses c
\* raises PaymentFailure 'No path found' and returns no route.
C6_ForceCloseInvalidatesRoutes ==
    \A c \in channels :
       ( /\ ret.op = "_create_route_from_invoice"
         /\ Broadcast(c) \in events
         /\ caller.addr # None
         /\ TheVal(caller.addr).amount # None
         /\ FirstChannels(TheVal(caller.addr)) = {c} )
       => ret.result = "PaymentFailure: No path found"

C6_Witness ==
    /\ ret = Ret("_create_route_from_invoice", "PaymentFailure: No path found")
    /\ chan["c1"].force_closed
    /\ Broadcast("c1") \in events
    /\ ~chan["c2"].force_closed
    /\ caller.addr # None
    /\ TheVal(caller.addr).amount # None
    /\ FirstChannels(TheVal(caller.addr)) = {"c1"}

\* C8: every route _create_route_from_invoice returns, from a routing hint or
\* direct, satisfies is_route_sane_to_use(route, amount_msat,
\* min_final_cltv_expiry); when it returns none it raises PaymentFailure.
C8_RoutingSanity ==
    ( /\ ret.op = "_create_route_from_invoice"
      /\ caller.addr # None
      /\ TheVal(caller.addr).amount # None )
    => IF ret.result = ""
       THEN /\ caller.route # None
            /\ is_route_sane_to_use(TheVal(caller.route),
                                    TheVal(TheVal(caller.addr).amount) * 1000,
                                    TheVal(caller.addr).min_final_cltv_expiry)
       ELSE ret.result = "PaymentFailure: No path found"

\* a route built from a hint is returned although an earlier hint was rejected
C8_Witness ==
    /\ ret = Ret("_create_route_from_invoice", "")
    /\ caller.addr # None
    /\ TheVal(caller.addr).r_tags \in { <<hint_fee, hint_ok>>, <<hint_spoiled, hint_fixed>> }
    /\ Len(TheVal(caller.route)) = 2

----------------------------------------------------------------------------
(* Specification of payments: concurrent _pay calls and a remote that may fail *)
(* any HTLC                                                                    *)

\* the preimage of the invoice worker B issued
PreimageOfB == <<0>>

\* the decoded invoices worker A is asked to pay: B's invoice (also expired, and
\* without amount) and an invoice B does not know
PayInvoices ==
    { LnAddr(sha256(PreimageOfB), Some(100000), "n1", << >>, 9, expired) :
         expired \in BOOLEAN }
    \cup { LnAddr(sha256(PreimageOfB), None, "n1", << >>, 9, FALSE),
           LnAddr(sha256(sha256(PreimageOfB)), Some(100000), "n1", << >>, 9, FALSE) }

\* every channel has room for one more HTLC
HtlcRoom == \A c \in channels : Cardinality(chan[c].htlcs) < MaxHtlcs

\* a call of _pay, run until it awaits its first future or ends
PayStart(invoices) ==
    \E p \in PayIds, addr \in invoices, amount_sat \in {None, Some(100000)},
       attempts \in 1..MaxAttempts :
       \E r_tags \in Shuffles(addr.r_tags) :
          /\ pay[p].pc # "await"
          /\ HtlcRoom
          /\ Commit("_pay", _pay(State, p, addr, amount_sat, attempts, r_tags))

\* the future a coroutine awaits has its result: the coroutine runs on
PayResume(p) ==
    /\ pay[p].pc = "await"
    /\ future_of(State, p) # {}
    /\ ( /\ ~TheVal(future_of(State, p))
         /\ ~pay[p].direct
         /\ pay[p].i + 1 < pay[p].attempts ) => HtlcRoom
    /\ \E r_tags \in Shuffles(TheVal(pay[p].addr).r_tags) :
          Commit("_pay_resume", _pay_resume(State, p, r_tags))

\* the message loop of the remote Peer fulfils an HTLC
RemoteFulfill ==
    \E c \in channels :
       \E h \in Unsettled(chan[c]) :
          /\ WorkerOf(chan[c].node_id) # None
          /\ can_fulfill(State, TheVal(WorkerOf(chan[c].node_id)), h)
          /\ Commit("remote_fulfill_htlc", remote_fulfill_htlc(State, c, h))

\* the remote fails an HTLC
RemoteFail ==
    \E c \in channels :
       \E h \in Unsettled(chan[c]) :
          Commit("remote_fail_htlc", settle_htlc(State, c, h, "failed"))

\* the keys of the futures that have a result
Resolved == { f.key : f \in { g \in pending_payments : g.result # None } }

\* our Peer's message loop learns that an HTLC was fulfilled
OnUpdateFulfillHtlc ==
    \E c \in channels :
       \E h \in chan[c].htlcs :
          /\ h.settled = "fulfilled"
          /\ <<TheVal(chan[c].short_channel_id), h.htlc_id>> \notin Resolved
          /\ Commit("on_update_fulfill_htlc", set_result(State, c, h, TRUE))

\* our Peer's message loop learns that an HTLC was failed
OnUpdateFailHtlc ==
    \E c \in channels :
       \E h \in chan[c].htlcs :
          /\ h.settled = "failed"
          /\ <<TheVal(chan[c].short_channel_id), h.htlc_id>> \notin Resolved
          /\ Commit("on_update_fail_htlc", set_result(State, c, h, FALSE))

\* workers A and B with open channels; B issued one invoice
InitWithRequest(amount_sat, payment_preimage) ==
    /\ InitStoreWithRequest(ChanIds, OpenChanObjs, amount_sat, payment_preimage)
    /\ InitChans(ChanIds, OpenChanObjs, MinedTx(MaxConf, 100, 0))
    /\ InitPeersConnected
    /\ InitPay

InitPayments == InitWithRequest(Some(100000), PreimageOfB)

NextPay ==
    \/ PayStart(PayInvoices)
    \/ \E p \in PayIds : PayResume(p)
    \/ RemoteFulfill
    \/ RemoteFail
    \/ OnUpdateFulfillHtlc
    \/ OnUpdateFailHtlc

SpecPay == InitPayments /\ [][NextPay]_vars

\* the status stored by worker A under a key; "" when there is no record
StoredStatus(invoices, k) == IF invoices[k] = NoInvoice THEN "" ELSE invoices[k][3]

\* C3: under any interleaving of _pay calls the stored status of a SENT invoice
\* only changes UNPAID -> INFLIGHT, INFLIGHT -> PAID or INFLIGHT -> UNPAID, and
\* never changes once it is PAID.
C3_SentStatusMonotonic ==
    [][\A k \in HexKeys :
          ( /\ lnwallet[Me].invoices[k] # NoInvoice
            /\ lnwallet[Me].invoices[k][2] = SENT
            /\ StoredStatus(lnwallet'[Me].invoices, k) # StoredStatus(lnwallet[Me].invoices, k) )
          => <<StoredStatus(lnwallet[Me].invoices, k), StoredStatus(lnwallet'[Me].invoices, k)>>
                \in { <<PR_UNPAID, PR_INFLIGHT>>, <<PR_INFLIGHT, PR_PAID>>,
                      <<PR_INFLIGHT, PR_UNPAID>> }]_vars

\* C4: when the store holds status PAID for the invoice's payment hash, _pay
\* raises PaymentFailure('This invoice has been paid already'), builds no route,
\* adds no HTLC and leaves the stored record as it is.
C4_PaidInvoiceRejected ==
    [][\A p \in PayIds :
          ( /\ ret'.op = "_pay"
            /\ pay'[p] # pay[p]
            /\ get_invoice_status(lnwallet[Me], TheVal(pay'[p].addr).paymenthash) = PR_PAID )
          => /\ ret'.result = "PaymentFailure: This invoice has been paid already"
             /\ pay'[p].result = ret'.result
             /\ pay'[p].route = None
             /\ chan' = chan
             /\ pending_payments' = pending_payments
             /\ lnwallet' = lnwallet]_vars

C4_Witness ==
    /\ ret = Ret("_pay", "PaymentFailure: This invoice has been paid already")
    /\ \E p \in PayIds :
          /\ pay[p].result = ret.result
          /\ get_invoice_status(lnwallet[Me], TheVal(pay[p].addr).paymenthash) = PR_PAID

\* the HTLCs of the channels, each with its channel
HtlcsOf(chs) == UNION { { <<c, h>> : h \in chs[c].htlcs } : c \in ChanIds }

\* C30: _pay(invoice, attempts=n) makes at most n payment attempts, builds a
\* fresh route before each one, returns True right after the first attempt whose
\* HTLC settles, without a further attempt, and returns False after n failed
\* attempts with the invoice status left UNPAID.
C30_RetryLoop ==
    [][\A p \in PayIds :
          (pay'[p] # pay[p] /\ ~pay'[p].direct /\ ret'.op \in {"_pay", "_pay_resume"})
          => LET n == pay'[p].attempts
                 addr == TheVal(pay'[p].addr)
                 sent == HtlcsOf(chan') \ HtlcsOf(chan)
                 resumed == ret'.op = "_pay_resume"
                 success == resumed /\ TheVal(future_of(State, p))
                 failure == resumed /\ ~TheVal(future_of(State, p))
                 status == get_invoice_status(lnwallet'[Me], addr.paymenthash)
             IN /\ Cardinality(sent) <= 1
                /\ sent # {}
                      => /\ pay'[p].i < n
                         /\ pay'[p].pc = "await"
                         /\ \E r_tags \in Shuffles(addr.r_tags) :
                               pay'[p].route = _create_route_from_invoice(State, addr, r_tags).route
                         /\ \A x \in sent :
                               /\ chan[x[1]].short_channel_id
                                     = Some(TheVal(pay'[p].route)[1].short_channel_id)
                               /\ x[2].payment_hash = addr.paymenthash
                /\ success
                      => /\ pay'[p].pc = "done"
                         /\ pay'[p].result = "True"
                         /\ sent = {}
                         /\ status = PR_PAID
                /\ failure => pay'[p].i = pay[p].i + 1
                /\ (pay'[p].pc = "done" /\ pay'[p].result = "False")
                      <=> (failure /\ pay[p].i + 1 = n)
                /\ pay'[p].result = "False" => status = PR_UNPAID]_vars

\* a _pay with two attempts returned False: both its HTLCs were failed
C30_Witness ==
    \E p \in PayIds :
       /\ ret = Ret("_pay_resume", "False")
       /\ pay[p].pc = "done"
       /\ pay[p].result = "False"
       /\ pay[p].attempts > 1
       /\ pay[p].i = pay[p].attempts
       /\ get_invoice_status(lnwallet[Me], TheVal(pay[p].addr).paymenthash) = PR_UNPAID
       /\ Cardinality({ x \in HtlcsOf(chan) : x[2].settled = "failed" }) >= pay[p].attempts

\* C31: when the caller passes amount_sat to _pay, that amount replaces the
\* invoice's amount: the route is built for it and the HTLC is offered with it,
\* also for an invoice that carries no amount of its own (such an invoice
\* passes _check_invoice only when the caller passed an amount).
C31_CallerAmountOverride ==
    [][\A p \in PayIds :
          ( /\ ret'.op = "_pay"
            /\ pay'[p] # pay[p]
            /\ TheVal(pay'[p].addr).amount = None
            /\ get_invoice_status(lnwallet[Me], TheVal(pay'[p].addr).paymenthash) # PR_PAID
            /\ ret'.result # "InvoiceError: Missing amount" )
          => /\ ret'.result # "TypeError"
             /\ pay'[p].route # None
             /\ \A x \in HtlcsOf(chan') \ HtlcsOf(chan) : x[2].amount_msat = 100000 * 1000]_vars

\* the exceptions _check_invoice raises
InvoiceErrors ==
    { "InvoiceError: This invoice has expired",
      "InvoiceError: Missing amount",
      "InvoiceError: Invoice wants us to risk locking funds for unreasonably long." }

\* C37: when _pay fails the validation of the invoice, worker A's invoice store
\* is the same as before the call, in memory and in storage: no record is
\* created or overwritten for the payment hash.
C37_RejectedInvoiceLeavesStore ==
    [][( /\ ret'.op = "_pay"
         /\ ret'.result \in InvoiceErrors )
       => /\ lnwallet'[Me].invoices = lnwallet[Me].invoices
          /\ lnwallet'[Me].storage.lightning_invoices2
                = lnwallet[Me].storage.lightning_invoices2]_vars

----------------------------------------------------------------------------
(* Specification of payments over a route built earlier *)

\* the invoices a route is built for: B's invoice and one B does not know
StaleInvoices == { addr \in PayInvoices : addr.amount # None /\ ~addr.expired }

\* a direct call of _pay_to_route with the route the caller holds and its invoice
PayToRoute(p) ==
    /\ pay[p].pc # "await"
    /\ caller.route # None
    /\ HtlcRoom
    /\ Commit("_pay_to_route",
              _pay_to_route(State, p, TheVal(caller.route), TheVal(caller.route_addr)))

NextStale ==
    \/ CreateRoute(StaleInvoices)
    \/ PayToRoute("p1")
    \/ ForceCloseChannel
    \/ PeerClosed
    \/ PayResume("p1")
    \/ RemoteFulfill
    \/ RemoteFail
    \/ OnUpdateFulfillHtlc
    \/ OnUpdateFailHtlc

SpecStale == InitPayments /\ [][NextStale]_vars

\* C7: _pay_to_route called with a route built earlier whose first hop is a
\* closed channel raises PaymentFailure and adds no HTLC to the channel.
C7_NoHtlcOverClosedChannel ==
    [][\A c \in channels :
          ( /\ ret'.op = "_pay_to_route"
            /\ caller.route # None
            /\ Some(TheVal(caller.route)[1].short_channel_id) = chan[c].short_channel_id
            /\ is_closed(chan[c]) )
          => /\ ret'.result \in PaymentFailures
             /\ chan'[c].htlcs = chan[c].htlcs]_vars

\* payments by _pay and by _pay_to_route over a route built earlier, with
\* channels that may be force-closed in between
NextInflight ==
    \/ PayStart(StaleInvoices)
    \/ CreateRoute(StaleInvoices)
    \/ PayToRoute("p1")
    \/ ForceCloseChannel
    \/ \E p \in PayIds : PayResume(p)
    \/ RemoteFail
    \/ OnUpdateFailHtlc

SpecInflight == InitPayments /\ [][NextInflight]_vars

\* C36: whenever _pay or _pay_to_route terminates, by returning or by raising,
\* and no other payment attempt for the same invoice is in progress, the stored
\* status of the invoice is not INFLIGHT.
C36_NoPaymentLeftInflight ==
    [][\A p \in PayIds :
          ( /\ ret'.op \in {"_pay", "_pay_to_route", "_pay_resume"}
            /\ pay'[p] # pay[p]
            /\ pay'[p].pc = "done"
            /\ \A q \in PayIds : pay'[q].pc = "await" => pay'[q].addr # pay'[p].addr )
          => get_invoice_status(lnwallet'[Me], TheVal(pay'[p].addr).paymenthash)
                # PR_INFLIGHT]_vars

----------------------------------------------------------------------------
(* Specification of the pending_payments futures: a payment whose coroutine *)
(* reads its future before or after our Peer's message loop resolved it    *)

\* a direct call of _pay_to_route, run until peer.pay suspends it
PaySend(p) ==
    /\ pay[p].pc \notin {"sent", "await"}
    /\ caller.route # None
    /\ HtlcRoom
    /\ Commit("_pay_to_route",
              _pay_to_route_sent(State, p, TheVal(caller.route), TheVal(caller.route_addr)))

\* peer.pay returned: the coroutine reads its future and awaits it
PayRead(p) ==
    /\ pay[p].pc = "sent"
    /\ Commit("read_future", read_future(State, p))

\* our Peer's message loop receives update_fulfill_htlc for an HTLC and gives
\* the future of the HTLC the result True
HtlcFulfilled ==
    \E c \in channels :
       \E h \in Unsettled(chan[c]) :
          /\ WorkerOf(chan[c].node_id) # None
          /\ can_fulfill(State, TheVal(WorkerOf(chan[c].node_id)), h)
          /\ Commit("on_update_fulfill_htlc",
                    set_result(remote_fulfill_htlc(State, c, h), c, h, TRUE))

\* our Peer's message loop learns that an HTLC failed and gives the future of
\* the HTLC the result False
HtlcFailed ==
    \E c \in channels :
       \E h \in Unsettled(chan[c]) :
          Commit("on_update_fail_htlc",
                 set_result(settle_htlc(State, c, h, "failed"), c, h, FALSE))

NextFuture ==
    \/ CreateRoute(StaleInvoices)
    \/ PaySend("p1")
    \/ PayRead("p1")
    \/ PayResume("p1")
    \/ HtlcFulfilled
    \/ HtlcFailed

\* every HTLC is settled by the remote, and no coroutine that can run waits forever
SpecFuture ==
    /\ InitPayments
    /\ [][NextFuture]_vars
    /\ WF_vars(HtlcFulfilled \/ HtlcFailed)
    /\ WF_vars(PayRead("p1"))
    /\ WF_vars(PayResume("p1"))

\* the HTLC the coroutine p sent
HtlcOf(p) ==
    UNION { { h \in chan[c].htlcs : h.htlc_id = TheVal(pay[p].key)[2] } :
               c \in { x \in channels :
                          chan[x].short_channel_id = Some(TheVal(pay[p].key)[1]) } }

\* the coroutine p returned what the Peer reported for its HTLC
Delivered(p) ==
    /\ pay[p].pc = "done"
    /\ \E h \in HtlcOf(p) : \/ (h.settled = "fulfilled" /\ pay[p].result = "True")
                             \/ (h.settled = "failed" /\ pay[p].result = "False")

\* C16: the payment coroutine awaiting pending_payments[(scid, htlc_id)] receives
\* the Peer's result (true for settle, false for fail) whether the Peer resolves
\* the entry before or after the coroutine first reads it: the result is not
\* lost and the coroutine does not wait forever.
C16_FutureOrderIndependent ==
    (pay["p1"].pc = "sent") ~> Delivered("p1")

\* the Peer resolved the future before the coroutine read it: the coroutine has
\* just read pending_payments[key] and found the future with its result
C16_Witness ==
    /\ ret.op = "read_future"
    /\ pay["p1"].pc = "await"
    /\ future_of(State, "p1") # {}

----------------------------------------------------------------------------
(* Specification of scenario S1: one payment over an open channel, both *)
(* message loops running                                                *)

\* B issues an invoice for 100000 sat
InitS1 == \E payment_preimage \in {PreimageOfB, sha256(PreimageOfB)} :
             InitWithRequest(Some(100000), payment_preimage)

\* the invoices worker B issued, decoded
InvoicesOfB ==
    { LnAddr(bfh(k), lnwallet["B"].invoices[k][1], "n1", << >>, 9, FALSE) :
         k \in lnwallet["B"].requests }

NextS1 ==
    \/ PayStart(InvoicesOfB)
    \/ \E p \in PayIds : PayResume(p)
    \/ RemoteFulfill
    \/ OnUpdateFulfillHtlc

SpecS1 ==
    /\ InitS1
    /\ [][NextS1]_vars
    /\ WF_vars(RemoteFulfill)
    /\ WF_vars(OnUpdateFulfillHtlc)
    /\ \A p \in PayIds : WF_vars(PayResume(p))

\* worker A's _pay of B's invoice returned True and both workers hold it as PAID
PaymentDone(p) ==
    /\ pay[p].pc = "done"
    /\ pay[p].result = "True"
    /\ LET payment_hash == TheVal(pay[p].addr).paymenthash
       IN /\ get_invoice_status(lnwallet[Me], payment_hash) = PR_PAID
          /\ get_invoice_status(lnwallet["B"], payment_hash) = PR_PAID
          /\ PaymentReceived("B", bh2u(payment_hash), 1) \in events

\* C5: with an open channel between A and B, both message loops running and B
\* holding an UNPAID RECEIVED invoice with its preimage, A's _pay of the invoice
\* eventually returns True, A and B hold the invoice as PAID and B fired
\* payment_received.
C5_SuccessfulDirectPayment ==
    \A p \in PayIds : (pay[p].pc = "await") ~> PaymentDone(p)

C5_Witness == \E p \in PayIds : PaymentDone(p)

====
